---- MODULE Spec2Model ----
(***************************************************************************)
(* Model of the SvelteKit monitoring wrappers and of the trace-context     *)
(* codec: extractTraceparentData, addTracingHeadersToFetchRequest          *)
(* (packages/utils/src/tracing.ts), sentryHandle and transformPageChunk    *)
(* (packages/sveltekit/src/server), wrapLoadWithSentry and                  *)
(* instrumentSvelteKitFetch (packages/sveltekit/src/client/load.ts).       *)
(*                                                                         *)
(* Strings are sequences of one-character strings.  An optional value is   *)
(* a sequence of length 0 (undefined) or 1 (the value).                    *)
(***************************************************************************)
EXTENDS Integers, Sequences, FiniteSets, TLC

VARIABLES
  tpInput,      \* codec: the header string handed to extractTraceparentData
  tpTriple,     \* codec: the (traceId, spanId, sampled) triple tpInput was serialized from, if any
  tpResult,     \* codec: <<>> before the call, <<r>> after it, r the returned value
  tpSteps,      \* codec: number of parse calls made
  injRequest,   \* injector: the fetch input, a URL string or a Request carrying a Headers object
  injOptions,   \* injector: the fetch options; options.headers is absent or a header container
  injDsc,       \* injector: the dynamic sampling context of the active transaction
  injSpan,      \* injector: the span whose traceparent is injected
  injResult,    \* injector: <<>> before the call, <<r>> after it
  hReq,         \* handle: per inbound request, its sentry-trace and baggage headers, method and route id
  hpc,          \* handle: per request, the position of sentryHandle
  hSpan,        \* handle: per request, the span its trace() call opened, if any
  hScope,       \* handle: per hub, the span (named by its request) on the hub's scope, if any
  hParent,      \* handle: per request, the parentSpan its trace() call found on the scope
  hRes,         \* handle: per request, how the wrapped resolver settled, if it has
  hOut,         \* handle: per request, what the caller of sentryHandle got, if anything yet
  hCaptured,    \* handle: the exceptions captured so far, in order
  hLookups,     \* handle: per request, the transactions its transformPageChunk calls found
  hChunks,      \* handle: per request, the number of transformPageChunk calls made
  hLog,         \* handle: per request, the steps taken for it, in order
  hPage,        \* handle: per request, what its last transformPageChunk call returned, if any
  pgTx,         \* page: the active transaction transformPageChunk finds, if any
  pgHtml,       \* page: the chunk handed to transformPageChunk
  pgOut,        \* page: <<>> before the call, <<r>> after it, r the returned chunk
  lEvent,       \* load: the event the wrapped load is called with (route id, pathname, fetch)
  lpc,          \* load: the position of the wrapped load
  lSpans,       \* load: the spans of the client, by name ("pageload", "load"), if opened
  lScope,       \* load: the span on the scope of the client hub, if any
  lParent,      \* load: the parentSpan the trace() call of the load found on the scope
  lPatched,     \* load: the event handed to the original load, once it was called
  lCalls,       \* load: the number of calls of the original load
  lRes,         \* load: how the original load settled, if it has
  lOut,         \* load: what the caller of the wrapped load got, if anything yet
  lCaptured,    \* load: the exceptions captured so far, in order
  lLog,         \* load: the steps taken, in order
  fpc,          \* fetch: "off" until instrumentSvelteKitFetch has returned the instrumented fetch
  fCfg,         \* fetch: the client's BrowserTracing options and Breadcrumbs options, if installed
  fSpans,       \* fetch: the spans of the client, by name ("active", "f1", ...), if opened
  fScope,       \* fetch: the name of the span on the scope of the client hub, if any
  fTxDsc,       \* fetch: the dynamic sampling context of the active transaction
  fCalls,       \* fetch: the calls of the instrumented fetch so far, in order
  fBreadcrumbs  \* fetch: the breadcrumbs recorded so far, in order

codecVars == <<tpInput, tpTriple, tpResult, tpSteps>>
injVars == <<injRequest, injOptions, injDsc, injSpan, injResult>>
handleVars == <<hReq, hpc, hSpan, hScope, hParent, hRes, hOut, hCaptured, hLookups, hChunks, hLog, hPage>>
pageVars == <<pgTx, pgHtml, pgOut>>
loadVars == <<lEvent, lpc, lSpans, lScope, lParent, lPatched, lCalls, lRes, lOut, lCaptured, lLog>>
fetchVars == <<fpc, fCfg, fSpans, fScope, fTxDsc, fCalls, fBreadcrumbs>>
otherThanCodec == <<injVars, handleVars, loadVars, fetchVars, pageVars>>
otherThanInject == <<codecVars, handleVars, loadVars, fetchVars, pageVars>>
otherThanHandle == <<codecVars, injVars, loadVars, fetchVars, pageVars>>
otherThanLoad == <<codecVars, injVars, handleVars, fetchVars, pageVars>>
otherThanPage == <<codecVars, injVars, handleVars, loadVars, fetchVars>>
otherThanFetch == <<codecVars, injVars, handleVars, loadVars, pageVars>>

\* ---------------------------------------------------------------- options
None == <<>>
Some(v) == <<v>>
IsSome(o) == Len(o) = 1
Get(o) == o[1]

\* ---------------------------------------------------------------- strings
Rep(c, n) == [i \in 1..n |-> c]

HexChars == {"0", "1", "2", "3", "4", "5", "6", "7", "8", "9", "a", "b", "c", "d", "e", "f"}
WsChars == {" ", "\t"}
FlagChars == {"0", "1"}

TraceIdLen == 32
SpanIdLen == 16

\* ------------------------------------------------- TRACEPARENT_REGEXP
\* Position after n characters of class S at position i of s; 0 when they are not there.
\* A position of 0 (an earlier piece failed) stays 0.
Consume(s, i, n, S) ==
  IF i = 0 THEN 0
  ELSE IF i + n - 1 <= Len(s) /\ (\A k \in i..(i + n - 1) : s[k] \in S) THEN i + n
  ELSE 0

\* The five optional pieces of the pattern, in order; a piece is taken iff its bit of k is 0,
\* so that k counts the alternatives in the order a greedy backtracking matcher tries them.
Taken(k, j) == ((k \div (2 ^ (5 - j))) % 2) = 0

LeadWs(s) ==
  IF \A i \in 1..Len(s) : s[i] \in WsChars THEN Len(s)
  ELSE (CHOOSE i \in 1..Len(s) : s[i] \notin WsChars /\ \A j \in 1..(i - 1) : s[j] \in WsChars) - 1

\* Piece j of the pattern: its length and its character class.
PieceLen(j) == CASE j = 1 -> TraceIdLen [] j = 3 -> SpanIdLen [] OTHER -> 1
PieceClass(j) == CASE j = 1 -> HexChars [] j = 3 -> HexChars [] j = 5 -> FlagChars [] OTHER -> {"-"}

\* The position after pieces 1..j under alternative k, 0 when one of them fails.
RECURSIVE PosAfter(_, _, _)
PosAfter(s, k, j) ==
  IF j = 0 THEN LeadWs(s) + 1
  ELSE IF Taken(k, j) THEN Consume(s, PosAfter(s, k, j - 1), PieceLen(j), PieceClass(j))
  ELSE PosAfter(s, k, j - 1)

RestIsWs(s, e) == e # 0 /\ \A i \in e..Len(s) : s[i] \in WsChars

Works(s, k) == RestIsWs(s, PosAfter(s, k, 5))

\* The capture of piece j (1 = trace id, 3 = span id, 5 = flag) under alternative k.
Capture(s, k, j) ==
  IF Taken(k, j) THEN Some(SubSeq(s, PosAfter(s, k, j - 1), PosAfter(s, k, j) - 1)) ELSE None

Captures(s, k) == <<Capture(s, k, 1), Capture(s, k, 3), Capture(s, k, 5)>>

Least(ks) == CHOOSE x \in ks : \A y \in ks : x <= y

FirstMatch(s, ks) == IF ks = {} THEN None ELSE Some(Captures(s, Least(ks)))

\* traceparent.match(TRACEPARENT_REGEXP): None when there is no match, else the three groups.
MatchTraceparent(s) == FirstMatch(s, {k \in 0..31 : Works(s, k)})

\* ------------------------------------------------ extractTraceparentData
\* Lines 29-34.
ParentSampledOf(flag) ==
  IF flag = Some(<<"1">>) THEN Some(TRUE)
  ELSE IF flag = Some(<<"0">>) THEN Some(FALSE)
  ELSE None

TraceparentDataOf_swapped(m) ==
  Some([traceId |-> m[2], parentSampled |-> ParentSampledOf(m[3]), parentSpanId |-> m[1]])

\* Lines 36-40.
TraceparentDataOf(m) ==
  Some([traceId |-> m[1], parentSampled |-> ParentSampledOf(m[3]), parentSpanId |-> m[2]])

FromMatches_lenient(traceparent, matches) ==
  IF matches = None THEN None ELSE TraceparentDataOf(Get(matches))

\* Lines 24-40: undefined for the empty string or without a match, else the data.
FromMatches(traceparent, matches) ==
  IF traceparent = <<>> \/ matches = None THEN None ELSE TraceparentDataOf(Get(matches))

extractTraceparentData(traceparent) == FromMatches(traceparent, MatchTraceparent(traceparent))

\* Span.toTraceparent: "<traceId>-<spanId>" followed by "-1" / "-0" when a sampling decision exists.
toTraceparent(traceId, spanId, sampled) ==
  traceId \o <<"-">> \o spanId \o
    (IF sampled = Some(TRUE) THEN <<"-", "1">> ELSE IF sampled = Some(FALSE) THEN <<"-", "0">> ELSE <<>>)


\* ------------------------------------------------------ header containers
\* A header container is one record shape for the four runtime shapes:
\*   "Headers" an append-capable Headers object, entries = its name/value list
\*   "Array"   an ordered list of [name, value] pairs, entries = that list
\*   "Object"  a plain mapping, map = the mapping; a value is a string, an array of
\*             strings or undefined
\*   "Other"   a truthy value of none of these shapes (a primitive)
HeadersObj(es) == [shape |-> "Headers", entries |-> es, map |-> <<>>]
PairList(es) == [shape |-> "Array", entries |-> es, map |-> <<>>]
Mapping(m) == [shape |-> "Object", entries |-> <<>>, map |-> m]
OtherShape == [shape |-> "Other", entries |-> <<>>, map |-> <<>>]

\* A mapping value: v lists the strings of an array, or holds the one string.
StrVal(v) == [t |-> "str", v |-> <<v>>]
StrOf(val) == val.v[1]
ArrVal(vs) == [t |-> "arr", v |-> vs]
UndefVal == [t |-> "undef", v |-> <<>>]

BAGGAGE_HEADER_NAME == "baggage"
SENTRY_TRACE_NAME == "sentry-trace"

\* Array.prototype.join(sep) on a list of strings.
RECURSIVE Join(_, _)
Join(strs, sep) ==
  IF strs = <<>> THEN <<>>
  ELSE IF Len(strs) = 1 THEN strs[1]
  ELSE strs[1] \o sep \o Join(Tail(strs), sep)

\* dynamicSamplingContextToSentryBaggageHeader: the entries "sentry-<key>=<value>" joined
\* by commas; undefined for an empty context.
SENTRY_BAGGAGE_KEY_PREFIX == <<"s", "e", "n", "t", "r", "y", "-">>

BaggageEntries(dsc) == [i \in 1..Len(dsc) |-> SENTRY_BAGGAGE_KEY_PREFIX \o dsc[i][1] \o <<"=">> \o dsc[i][2]]

dynamicSamplingContextToSentryBaggageHeader(dsc) ==
  IF dsc = <<>> THEN None ELSE Some(Join(BaggageEntries(dsc), <<",">>))

\* ----------------------------------------- addTracingHeadersToFetchRequest
\* The value thrown by: 'baggage' in <primitive>.
TypeErrorResult == [threw |-> TRUE, headers |-> OtherShape]
Returned(c) == [threw |-> FALSE, headers |-> c]

SelectHeaders_optionsFirst(request, options) ==
  IF IsSome(options.headers) THEN options.headers
  ELSE IF request.isRequest THEN Some(request.headers) ELSE None

\* Line 72-73: the headers of a Request input win over options.headers.
SelectHeaders(request, options) ==
  IF request.isRequest THEN Some(request.headers) ELSE options.headers

MappingBranch_replace(headers, sentryTraceHeader, sentryBaggageHeader) ==
  Mapping([k \in DOMAIN headers.map \cup {SENTRY_TRACE_NAME, BAGGAGE_HEADER_NAME} |->
             IF k = SENTRY_TRACE_NAME THEN StrVal(sentryTraceHeader)
             ELSE IF k = BAGGAGE_HEADER_NAME
               THEN (IF IsSome(sentryBaggageHeader) THEN StrVal(Get(sentryBaggageHeader)) ELSE UndefVal)
             ELSE headers.map[k]])

\* Lines 99-118: the plain-mapping branch.
MappingBranch(headers, sentryTraceHeader, sentryBaggageHeader) ==
  LET existingBaggageHeader ==
        IF BAGGAGE_HEADER_NAME \in DOMAIN headers.map THEN headers.map[BAGGAGE_HEADER_NAME] ELSE UndefVal
      fromExisting ==
        IF existingBaggageHeader.t = "arr" THEN existingBaggageHeader.v
        ELSE IF existingBaggageHeader.t = "str" /\ StrOf(existingBaggageHeader) # <<>>
          THEN <<StrOf(existingBaggageHeader)>>
        ELSE <<>>
      newBaggageHeaders ==
        IF IsSome(sentryBaggageHeader) THEN Append(fromExisting, Get(sentryBaggageHeader)) ELSE fromExisting
  IN  Mapping([k \in DOMAIN headers.map \cup {SENTRY_TRACE_NAME, BAGGAGE_HEADER_NAME} |->
                 IF k = SENTRY_TRACE_NAME THEN StrVal(sentryTraceHeader)
                 ELSE IF k = BAGGAGE_HEADER_NAME
                   THEN (IF Len(newBaggageHeaders) > 0 THEN StrVal(Join(newBaggageHeaders, <<",">>))
                         ELSE UndefVal)
                 ELSE headers.map[k]])

\* Lines 77-98: the Headers and the pair-list branch append the new entries to a copy.
AppendBranch(headers, sentryTraceHeader, sentryBaggageHeader) ==
  LET withTrace == Append(headers.entries, <<SENTRY_TRACE_NAME, sentryTraceHeader>>)
      newEntries == IF IsSome(sentryBaggageHeader)
                      THEN Append(withTrace, <<BAGGAGE_HEADER_NAME, Get(sentryBaggageHeader)>>)
                    ELSE withTrace
  IN  [shape |-> headers.shape, entries |-> newEntries, map |-> <<>>]

addTracingHeadersToFetchRequest(request, dynamicSamplingContext, span, options) ==
  LET sentryBaggageHeader == dynamicSamplingContextToSentryBaggageHeader(dynamicSamplingContext)
      sentryTraceHeader == toTraceparent(span.traceId, span.spanId, span.sampled)
      headers == SelectHeaders(request, options)
  IN  IF headers = None
        THEN Returned(Mapping([k \in {SENTRY_TRACE_NAME, BAGGAGE_HEADER_NAME} |->
                                 IF k = SENTRY_TRACE_NAME THEN StrVal(sentryTraceHeader)
                                 ELSE IF IsSome(sentryBaggageHeader) THEN StrVal(Get(sentryBaggageHeader))
                                 ELSE UndefVal]))
      ELSE IF Get(headers).shape \in {"Headers", "Array"}
        THEN Returned(AppendBranch(Get(headers), sentryTraceHeader, sentryBaggageHeader))
      ELSE IF Get(headers).shape = "Object"
        THEN Returned(MappingBranch(Get(headers), sentryTraceHeader, sentryBaggageHeader))
      ELSE TypeErrorResult

\* ------------------------------------------------------ injector inputs
MaxEntries == 2
MaxDsc == 2

X1 == <<"1">>
A1 == <<"a", "=", "1">>
B2 == <<"b", "=", "2">>
OldTrace == Rep("0", TraceIdLen) \o <<"-">> \o Rep("0", SpanIdLen)

EntryPool == {<<"x", X1>>, <<BAGGAGE_HEADER_NAME, A1>>, <<BAGGAGE_HEADER_NAME, B2>>, <<SENTRY_TRACE_NAME, OldTrace>>}
EntryLists == UNION {[1..n -> EntryPool] : n \in 0..MaxEntries}

MapChoices(k) ==
  CASE k = "x" -> {StrVal(X1)}
    [] k = BAGGAGE_HEADER_NAME ->
         {StrVal(A1), StrVal(<<>>), UndefVal} \cup
         {ArrVal(SubSeq(<<A1, B2, A1, B2>>, 1, n)) : n \in 0..MaxEntries}
    [] OTHER -> {StrVal(OldTrace)}

Maps ==
  UNION {{m \in [ks -> UNION {MapChoices(k) : k \in ks}] : \A k \in ks : m[k] \in MapChoices(k)} :
           ks \in SUBSET {"x", BAGGAGE_HEADER_NAME, SENTRY_TRACE_NAME}}

Containers ==
  {HeadersObj(es) : es \in EntryLists} \cup {PairList(es) : es \in EntryLists}
    \cup {Mapping(m) : m \in Maps} \cup {OtherShape}

UrlInput == [isRequest |-> FALSE, headers |-> HeadersObj(<<>>)]
RequestInput(es) == [isRequest |-> TRUE, headers |-> HeadersObj(es)]
FetchInputs == {UrlInput} \cup {RequestInput(es) : es \in EntryLists}

DscEntries == <<<<<<"t">>, <<"1">>>>, <<<<"r">>, <<"2">>>>, <<<<"e">>, <<"3">>>>>>
Dscs == {SubSeq(DscEntries, 1, n) : n \in 0..MaxDsc}

Spans ==
  {[traceId |-> Rep("a", TraceIdLen), spanId |-> Rep("b", SpanIdLen), sampled |-> sm] :
     sm \in {Some(TRUE), None}}

headersAfterInjection_inPlace(headers, newHeaders) == newHeaders

\* Lines 78, 90 and 113-117: the entries are written to a container built from the given
\* one (new Headers(headers), [...headers, pair], { ...headers }); the given one keeps
\* what it held.
headersAfterInjection(headers, newHeaders) == headers

\* The caller's Request and options after a call that returned result.
requestAfterInjection(request, result) ==
  IF request.isRequest /\ ~result.threw
    THEN [request EXCEPT !.headers = headersAfterInjection(@, result.headers)]
  ELSE request

optionsAfterInjection(request, options, result) ==
  IF ~request.isRequest /\ IsSome(options.headers) /\ ~result.threw
    THEN [options EXCEPT !.headers = Some(headersAfterInjection(Get(@), result.headers))]
  ELSE options

\* One call of addTracingHeadersToFetchRequest.
Inject ==
  /\ injResult = None
  /\ injResult' = Some(addTracingHeadersToFetchRequest(injRequest, injDsc, injSpan, injOptions))
  /\ injRequest' = requestAfterInjection(injRequest,
                      addTracingHeadersToFetchRequest(injRequest, injDsc, injSpan, injOptions))
  /\ injOptions' = optionsAfterInjection(injRequest, injOptions,
                      addTracingHeadersToFetchRequest(injRequest, injDsc, injSpan, injOptions))
  /\ UNCHANGED <<injDsc, injSpan>>
  /\ UNCHANGED otherThanInject


\* ------------------------------------------------- monitoring collaborators
\* Thrown values: an object (an Error), a primitive, or the wrapper object of a primitive.
ObjectErr(v) == [kind |-> "object", v |-> v]
PrimitiveErr(v) == [kind |-> "primitive", v |-> v]

\* objectify: a primitive is wrapped in its wrapper class, an object is returned as it is.
objectify(e) == IF e.kind = "primitive" THEN [kind |-> "wrapper", v |-> e.v] ELSE e

\* spanStatusfromHttpCode
spanStatusfromHttpCode(httpStatus) ==
  IF httpStatus < 400 /\ httpStatus >= 100 THEN "ok"
  ELSE IF httpStatus >= 400 /\ httpStatus < 500
    THEN CASE httpStatus = 401 -> "unauthenticated"
           [] httpStatus = 403 -> "permission_denied"
           [] httpStatus = 404 -> "not_found"
           [] httpStatus = 409 -> "already_exists"
           [] httpStatus = 413 -> "failed_precondition"
           [] httpStatus = 429 -> "resource_exhausted"
           [] OTHER -> "invalid_argument"
  ELSE IF httpStatus >= 500 /\ httpStatus < 600
    THEN CASE httpStatus = 501 -> "unimplemented"
           [] httpStatus = 503 -> "unavailable"
           [] httpStatus = 504 -> "deadline_exceeded"
           [] OTHER -> "internal_error"
  ELSE "unknown_error"

\* Span.setHttpStatus: records the code, and sets the status unless it is unknown_error.
setHttpStatus(span, httpStatus) ==
  LET st == spanStatusfromHttpCode(httpStatus)
  IN  [span EXCEPT !.httpStatus = Some(httpStatus),
                   !.status = IF st # "unknown_error" THEN st ELSE @]

\* Span.setStatus
setStatus(span, st) == [span EXCEPT !.status = st]

\* Span.finish
finish(span) == [span EXCEPT !.finished = @ + 1]

\* The identifiers a new span or trace gets; one per owner, all distinct.
FreshChar(owner) ==
  CASE owner = "A" -> "a" [] owner = "B" -> "b" [] owner = "load" -> "e" [] owner = "pageload" -> "f"
    [] owner = "active" -> "7" [] owner = "f1" -> "1" [] owner = "f2" -> "2" [] owner = "f3" -> "3"
    [] OTHER -> "9"
FreshTraceId(owner) == Rep(FreshChar(owner), TraceIdLen)
FreshSpanId(owner) == Rep(FreshChar(owner), SpanIdLen)

\* hub.startTransaction(ctx): a root span; the trace identity of ctx when it has one.
startTransaction(ctx, owner) ==
  [name |-> ctx.name, op |-> ctx.op, status |-> ctx.status,
   traceId |-> IF IsSome(ctx.traceId) THEN Get(ctx.traceId) ELSE FreshTraceId(owner),
   spanId |-> FreshSpanId(owner),
   parentSpanId |-> ctx.parentSpanId,
   sampled |-> ctx.parentSampled,
   source |-> ctx.source,
   dsc |-> ctx.dsc,
   transaction |-> owner, httpStatus |-> None, finished |-> 0, parentName |-> None]

\* parentSpan.startChild(ctx): a span of the parent's trace and transaction.
startChild(parent, ctx, owner) ==
  [name |-> ctx.name, op |-> ctx.op, status |-> ctx.status,
   traceId |-> parent.traceId,
   spanId |-> FreshSpanId(owner),
   parentSpanId |-> Some(parent.spanId),
   sampled |-> parent.sampled,
   source |-> ctx.source,
   dsc |-> ctx.dsc,
   transaction |-> parent.transaction, httpStatus |-> None, finished |-> 0, parentName |-> None]

\* trace(): the span opened, a child of the span on the scope or else a new transaction.
traceStart(parentSpan, spans, ctx, owner) ==
  IF parentSpan = None THEN startTransaction(ctx, owner)
  ELSE startChild(Get(spans[Get(parentSpan)]), ctx, owner)

\* trace(): what the caller of trace() gets when the callback throws or rejects with e:
\* the error as onError observed and returned it, e itself when onError returns nothing.
traceRethrow(e, handled) == IF IsSome(handled) THEN Get(handled) ELSE e

\* baggageHeaderToDynamicSamplingContext: the "sentry-" entries of the header, without the
\* prefix, as key/value pairs; undefined when the header is absent or has none.
HasPrefix(str, pre) == Len(str) >= Len(pre) /\ SubSeq(str, 1, Len(pre)) = pre

KeyValue(entry) ==
  LET eq == CHOOSE i \in 1..Len(entry) : entry[i] = "=" /\ \A j \in 1..(i - 1) : entry[j] # "="
  IN  <<SubSeq(entry, 1, eq - 1), SubSeq(entry, eq + 1, Len(entry))>>

RECURSIVE SplitAt(_, _, _)
SplitAt(str, sep, cur) ==
  IF str = <<>> THEN <<cur>>
  ELSE IF str[1] = sep THEN <<cur>> \o SplitAt(Tail(str), sep, <<>>)
  ELSE SplitAt(Tail(str), sep, Append(cur, str[1]))

IsSentryEntry(entry) == HasPrefix(entry, SENTRY_BAGGAGE_KEY_PREFIX) /\ "=" \in {entry[i] : i \in 1..Len(entry)}

StripPrefix(entry) == SubSeq(entry, Len(SENTRY_BAGGAGE_KEY_PREFIX) + 1, Len(entry))

DscOf(own) ==
  IF own = <<>> THEN None ELSE Some([i \in 1..Len(own) |-> KeyValue(StripPrefix(own[i]))])

baggageHeaderToDynamicSamplingContext(baggageHeader) ==
  IF baggageHeader = None THEN None
  ELSE DscOf(SelectSeq(SplitAt(Get(baggageHeader), ",", <<>>), IsSentryEntry))

\* ----------------------------------------------------------- sentryHandle
Requests == {"A", "B"}
Hubs == Requests \cup {"global"}

DomainOf_shared(r) == "global"

\* Line 124, domain.create().bind(...)(): the domain the handler of request r and all its
\* continuations run in; one new domain per call.
DomainOf(r) == r

\* getCurrentHub(): the hub of the active domain.
getCurrentHub(domain) == domain

\* getActiveTransaction(): the transaction of the span on the current hub's scope.
getActiveTransaction(hub) ==
  IF hScope[hub] = None THEN None ELSE Some(Get(hSpan[Get(hScope[hub])]).transaction)

Mechanism(fn) == [type |-> "sveltekit", handled |-> FALSE, function |-> fn]

handleMechanism_handled == [type |-> "sveltekit", handled |-> TRUE, function |-> "handle"]

\* Lines 78-84: the mechanism sendErrorToSentry attaches.
handleMechanism == Mechanism("handle")

\* Lines 71-92, sendErrorToSentry: the capture it makes and the value it returns.
handleCapture(e, r) == [err |-> objectify(e), mechanism |-> handleMechanism, by |-> r]
handleSendErrorToSentry_wrapAll(e) == [kind |-> "wrapper", v |-> e.v]

handleSendErrorToSentry(e) == objectify(e)

NullText == <<"n", "u", "l", "l">>

\* Line 133: `${event.request.method} ${event.route.id}`
handleSpanName(req) ==
  req.method \o <<" ">> \o (IF IsSome(req.routeId) THEN Get(req.routeId) ELSE NullText)

\* Line 127: sentryTraceHeader ? extractTraceparentData(sentryTraceHeader) : undefined
handleTraceparentData(sentryTraceHeader) ==
  IF IsSome(sentryTraceHeader) /\ Get(sentryTraceHeader) # <<>>
    THEN extractTraceparentData(Get(sentryTraceHeader))
  ELSE None

\* Lines 131-140: the transaction context.
handleContextOf(req, traceparentData, dynamicSamplingContext) ==
  [op |-> "http.server",
   name |-> handleSpanName(req),
   status |-> "ok",
   traceId |-> IF IsSome(traceparentData) THEN Get(traceparentData).traceId ELSE None,
   parentSpanId |-> IF IsSome(traceparentData) THEN Get(traceparentData).parentSpanId ELSE None,
   parentSampled |-> IF IsSome(traceparentData) THEN Get(traceparentData).parentSampled ELSE None,
   source |-> "route",
   dsc |-> IF IsSome(traceparentData) /\ dynamicSamplingContext = None
             THEN Some(<<>>) ELSE dynamicSamplingContext]

\* Lines 125-140: the transaction context built from the inbound headers.
handleContext(req) ==
  handleContextOf(req, handleTraceparentData(req.sentryTrace),
                  baggageHeaderToDynamicSamplingContext(req.baggage))

StatusAfterResolve_skip(span, res) == span

\* Lines 143-145: span.setHttpStatus(res.status)
StatusAfterResolve(span, res) == setHttpStatus(span, res.status)

\* Lines 124-142: the headers are read, trace() opens the span on the scope of the
\* current hub and calls the callback, which calls resolve(event, ...); resolve is pending.
HandleStart(r) ==
  /\ hpc[r] = "received"
  /\ hSpan' = [hSpan EXCEPT ![r] = Some(traceStart(hScope[getCurrentHub(DomainOf(r))], hSpan, handleContext(hReq[r]), r))]
  /\ hParent' = [hParent EXCEPT ![r] = hScope[getCurrentHub(DomainOf(r))]]
  /\ hScope' = [hScope EXCEPT ![getCurrentHub(DomainOf(r))] = Some(r)]
  /\ hpc' = [hpc EXCEPT ![r] = "resolving"]
  /\ hLog' = [hLog EXCEPT ![r] = @ \o <<"readHeaders", "startSpan", "resolve">>]
  /\ UNCHANGED <<hReq, hRes, hOut, hCaptured, hLookups, hChunks, hPage>>
  /\ UNCHANGED otherThanHandle

MaxChunks == 1

HeadTag == <<"<", "h", "e", "a", "d", ">">>
UndefinedText == <<"u", "n", "d", "e", "f", "i", "n", "e", "d">>

\* The index of the first occurrence of sub in str, 0 when there is none.
FirstIndexOf(str, sub) ==
  IF \E i \in 1..(Len(str) - Len(sub) + 1) : SubSeq(str, i, i + Len(sub) - 1) = sub
    THEN CHOOSE i \in 1..(Len(str) - Len(sub) + 1) :
           /\ SubSeq(str, i, i + Len(sub) - 1) = sub
           /\ \A j \in 1..(i - 1) : SubSeq(str, j, j + Len(sub) - 1) # sub
  ELSE 0

\* String.prototype.replace with a string pattern: the first occurrence only.
ReplaceAt(str, at, len, by) ==
  IF at = 0 THEN str ELSE SubSeq(str, 1, at - 1) \o by \o SubSeq(str, at + len, Len(str))

ReplaceFirst(str, sub, by) == ReplaceAt(str, FirstIndexOf(str, sub), Len(sub), by)

\* A value inside a template literal: undefined prints as "undefined".
TemplateText(v) == IF v = None THEN UndefinedText ELSE Get(v)

\* Transaction.getDynamicSamplingContext(): the context frozen at the start of the
\* transaction when there is one, else the one made from the client's options.
ClientDsc == <<DscEntries[1]>>
getDynamicSamplingContext(transaction) ==
  IF IsSome(transaction.dsc) THEN Get(transaction.dsc) ELSE ClientDsc

\* The fixed parts of the markup are one element each.
SentryTraceMetaOpen == <<"\n      <meta name='sentry-trace' content='">>
BaggageMetaOpen == <<"'/>\n      <meta name='baggage' content='">>
MetaClose == <<"'/>">>

\* Lines 99-101.
pageContent(traceparentData, dynamicSamplingContext) ==
  HeadTag \o SentryTraceMetaOpen \o traceparentData
    \o BaggageMetaOpen \o TemplateText(dynamicSamplingContext) \o MetaClose

\* Lines 97-102.
injectMeta(transaction, html) ==
  ReplaceFirst(html, HeadTag,
               pageContent(toTraceparent(transaction.traceId, transaction.spanId, transaction.sampled),
                           dynamicSamplingContextToSentryBaggageHeader(getDynamicSamplingContext(transaction))))

transformPageChunk_twice(transaction, html) ==
  IF IsSome(transaction) THEN injectMeta(Get(transaction), injectMeta(Get(transaction), html)) ELSE html

\* Lines 94-106, transformPageChunk, transaction being what getActiveTransaction() returned.
transformPageChunk(transaction, html) ==
  IF IsSome(transaction) THEN injectMeta(Get(transaction), html) ELSE html

\* The transaction of the span on the scope of a hub, if any.
activeTransactionOf(hub) ==
  IF getActiveTransaction(hub) = None THEN None ELSE hSpan[Get(getActiveTransaction(hub))]

\* The chunk the resolver of the handler renders.
RenderedChunk == <<"<", "h", "t", "m", "l", ">", "<", "h", "e", "a", "d", ">", "<", "t", "i", "t", "l", "e", ">">>

\* Lines 94-106: the resolver renders a page chunk and calls transformPageChunk, which
\* looks up the active transaction.
TransformChunk(r) ==
  /\ hpc[r] = "resolving"
  /\ hChunks[r] < MaxChunks
  /\ hLookups' = [hLookups EXCEPT ![r] = @ \cup {getActiveTransaction(getCurrentHub(DomainOf(r)))}]
  /\ hChunks' = [hChunks EXCEPT ![r] = @ + 1]
  /\ hLog' = [hLog EXCEPT ![r] = Append(@, "transformPageChunk")]
  /\ hPage' = [hPage EXCEPT ![r] =
                 Some(transformPageChunk(activeTransactionOf(getCurrentHub(DomainOf(r))), RenderedChunk))]
  /\ UNCHANGED <<hReq, hpc, hSpan, hScope, hParent, hRes, hOut, hCaptured>>
  /\ UNCHANGED otherThanHandle

HttpStatuses == {200, 404, 500}
ThrownValues == {ObjectErr("boom"), PrimitiveErr("boom")}

Fulfilled(v) == [kind |-> "fulfilled", status |-> v, err |-> ObjectErr("none")]
Rejected(e) == [kind |-> "rejected", status |-> 0, err |-> e]

\* The promise of resolve() fulfils with a response.
ResolveFulfil(r) ==
  /\ hpc[r] = "resolving"
  /\ \E st \in HttpStatuses : hRes' = [hRes EXCEPT ![r] = Some(Fulfilled(st))]
  /\ hpc' = [hpc EXCEPT ![r] = "resolved"]
  /\ UNCHANGED <<hReq, hSpan, hScope, hParent, hOut, hCaptured, hLookups, hChunks, hLog, hPage>>
  /\ UNCHANGED otherThanHandle

\* resolve() throws, or its promise rejects: the async callback rejects.
ResolveReject(r) ==
  /\ hpc[r] = "resolving"
  /\ \E e \in ThrownValues : hRes' = [hRes EXCEPT ![r] = Some(Rejected(e))]
  /\ hpc' = [hpc EXCEPT ![r] = "rejected"]
  /\ UNCHANGED <<hReq, hSpan, hScope, hParent, hOut, hCaptured, hLookups, hChunks, hLog, hPage>>
  /\ UNCHANGED otherThanHandle

\* Lines 142-146, after the await: the status is set on the span and the callback returns.
HandleContinue(r) ==
  /\ hpc[r] = "resolved"
  /\ hSpan' = [hSpan EXCEPT ![r] = Some(StatusAfterResolve(Get(@), Get(hRes[r])))]
  /\ hpc' = [hpc EXCEPT ![r] = "returned"]
  /\ hLog' = [hLog EXCEPT ![r] = Append(@, "setHttpStatus")]
  /\ UNCHANGED <<hReq, hScope, hParent, hRes, hOut, hCaptured, hLookups, hChunks, hPage>>
  /\ UNCHANGED otherThanHandle

\* trace(), callback fulfilled: the span is finished, the scope gets parentSpan back and
\* the caller gets the response.
TraceFinish(r) ==
  /\ hpc[r] = "returned"
  /\ hSpan' = [hSpan EXCEPT ![r] = Some(finish(Get(@)))]
  /\ hScope' = [hScope EXCEPT ![getCurrentHub(DomainOf(r))] = hParent[r]]
  /\ hOut' = [hOut EXCEPT ![r] = hRes[r]]
  /\ hpc' = [hpc EXCEPT ![r] = "done"]
  /\ hLog' = [hLog EXCEPT ![r] = @ \o <<"finish", "return">>]
  /\ UNCHANGED <<hReq, hParent, hRes, hCaptured, hLookups, hChunks, hPage>>
  /\ UNCHANGED otherThanHandle

\* trace(), callback rejected with e: the span gets internal_error, onError(e) (line 148,
\* sendErrorToSentry) runs, the span is finished and the caller gets the rejection.
TraceError(r) ==
  /\ hpc[r] = "rejected"
  /\ hSpan' = [hSpan EXCEPT ![r] = Some(finish(setStatus(Get(@), "internal_error")))]
  /\ hCaptured' = Append(hCaptured, handleCapture(Get(hRes[r]).err, r))
  /\ hOut' = [hOut EXCEPT ![r] =
                Some(Rejected(traceRethrow(Get(hRes[r]).err, Some(handleSendErrorToSentry(Get(hRes[r]).err)))))]
  /\ hScope' = [hScope EXCEPT ![getCurrentHub(DomainOf(r))] = hParent[r]]
  /\ hpc' = [hpc EXCEPT ![r] = "done"]
  /\ hLog' = [hLog EXCEPT ![r] = @ \o <<"setStatus", "captureException", "finish", "throw">>]
  /\ UNCHANGED <<hReq, hParent, hRes, hLookups, hChunks, hPage>>
  /\ UNCHANGED otherThanHandle


\* ------------------------------------------------------ wrapLoadWithSentry
SpanNames == {"pageload", "load"}

loadMechanism_handle == Mechanism("handle")

\* Lines 24-30 of load.ts: the mechanism sendErrorToSentry attaches.
loadMechanism == Mechanism("load")

\* Lines 17-38 of load.ts, sendErrorToSentry: the capture it makes and the value it returns.
loadCapture(e) == [err |-> objectify(e), mechanism |-> loadMechanism, by |-> "load"]
loadSendErrorToSentry(e) == objectify(e)

\* Lines 58-61: a copy of the event with the instrumented fetch in the place of fetch.
patchedEventOf(event) == [event EXCEPT !.fetch = <<"instrumented", @>>]

eventAfterPatch_assigned(event, patchedEvent) == patchedEvent

\* Lines 58-61: patchedEvent is a new object literal; the event of the caller is only read.
eventAfterPatch(event, patchedEvent) == event

\* Lines 63-72: the span context of the load.
loadContext(event) ==
  [op |-> "function.sveltekit.load",
   name |-> IF IsSome(event.routeId) THEN Get(event.routeId) ELSE event.pathname,
   status |-> "ok",
   traceId |-> None, parentSpanId |-> None, parentSampled |-> None,
   source |-> IF IsSome(event.routeId) THEN "route" ELSE "url",
   dsc |-> None]

Returned_(v) == [kind |-> "returned", value |-> v, err |-> ObjectErr("none")]
Threw(e) == [kind |-> "threw", value |-> "none", err |-> e]
PromiseFulfilled(v) == [kind |-> "fulfilled", value |-> v, err |-> ObjectErr("none")]
PromiseRejected(e) == [kind |-> "rejected", value |-> "none", err |-> e]
PromisePending == [kind |-> "pending", value |-> "none", err |-> ObjectErr("none")]

LoadValues == {"data1", "data2"}
LoadErrors == {ObjectErr("boom"), PrimitiveErr("boom"), PrimitiveErr("42")}

\* Lines 55-73: the wrapped load is called; the event is patched, trace() opens the load
\* span on the scope and calls the callback, which calls the original load.
LoadCall ==
  /\ lpc = "idle"
  /\ lPatched' = Some(patchedEventOf(lEvent))
  /\ lSpans' = [lSpans EXCEPT !["load"] = Some(traceStart(lScope, lSpans, loadContext(lEvent), "load"))]
  /\ lParent' = lScope
  /\ lScope' = Some("load")
  /\ lCalls' = lCalls + 1
  /\ lpc' = "running"
  /\ lLog' = lLog \o <<"patchEvent", "startSpan", "origLoad">>
  /\ lEvent' = eventAfterPatch(lEvent, patchedEventOf(lEvent))
  /\ UNCHANGED <<lRes, lOut, lCaptured>>
  /\ UNCHANGED otherThanLoad

\* The original load returns a value that is no promise: trace() finishes the span and
\* returns the value.
LoadReturn ==
  /\ lpc = "running"
  /\ \E v \in LoadValues : lRes' = Some(Returned_(v)) /\ lOut' = Some(Returned_(v))
  /\ lSpans' = [lSpans EXCEPT !["load"] = Some(finish(Get(@)))]
  /\ lScope' = lParent
  /\ lpc' = "done"
  /\ lLog' = lLog \o <<"finish", "return">>
  /\ UNCHANGED <<lEvent, lParent, lPatched, lCalls, lCaptured>>
  /\ UNCHANGED otherThanLoad

\* The original load throws: trace() sets internal_error, calls onError (line 74,
\* sendErrorToSentry), finishes the span and throws.
LoadThrow ==
  /\ lpc = "running"
  /\ \E e \in LoadErrors :
       /\ lRes' = Some(Threw(e))
       /\ lCaptured' = Append(lCaptured, loadCapture(e))
       /\ lOut' = Some(Threw(traceRethrow(e, Some(loadSendErrorToSentry(e)))))
  /\ lSpans' = [lSpans EXCEPT !["load"] = Some(finish(setStatus(Get(@), "internal_error")))]
  /\ lScope' = lParent
  /\ lpc' = "done"
  /\ lLog' = lLog \o <<"setStatus", "captureException", "finish", "throw">>
  /\ UNCHANGED <<lEvent, lParent, lPatched, lCalls>>
  /\ UNCHANGED otherThanLoad

\* The original load returns a promise: trace() returns a promise to the caller.
LoadReturnPromise ==
  /\ lpc = "running"
  /\ lOut' = Some(PromisePending)
  /\ lpc' = "pending"
  /\ lLog' = Append(lLog, "returnPromise")
  /\ UNCHANGED <<lEvent, lSpans, lScope, lParent, lPatched, lCalls, lRes, lCaptured>>
  /\ UNCHANGED otherThanLoad

\* The promise of the original load fulfils: trace() finishes the span.
LoadFulfil ==
  /\ lpc = "pending"
  /\ \E v \in LoadValues : lRes' = Some(PromiseFulfilled(v)) /\ lOut' = Some(PromiseFulfilled(v))
  /\ lSpans' = [lSpans EXCEPT !["load"] = Some(finish(Get(@)))]
  /\ lScope' = lParent
  /\ lpc' = "done"
  /\ lLog' = lLog \o <<"finish", "fulfil">>
  /\ UNCHANGED <<lEvent, lParent, lPatched, lCalls, lCaptured>>
  /\ UNCHANGED otherThanLoad

\* The promise of the original load rejects: trace() sets internal_error, calls onError
\* and finishes the span; the promise the caller holds rejects.
LoadReject ==
  /\ lpc = "pending"
  /\ \E e \in LoadErrors :
       /\ lRes' = Some(PromiseRejected(e))
       /\ lCaptured' = Append(lCaptured, loadCapture(e))
       /\ lOut' = Some(PromiseRejected(traceRethrow(e, Some(loadSendErrorToSentry(e)))))
  /\ lSpans' = [lSpans EXCEPT !["load"] = Some(finish(setStatus(Get(@), "internal_error")))]
  /\ lScope' = lParent
  /\ lpc' = "done"
  /\ lLog' = lLog \o <<"setStatus", "captureException", "finish", "reject">>
  /\ UNCHANGED <<lEvent, lParent, lPatched, lCalls>>
  /\ UNCHANGED otherThanLoad

\* ---------------------------------------------------------- load inputs
RouteText == <<"/", "b">>
PathText == <<"/", "p">>
OtherRouteText == <<"/", "c">>

LoadEvents ==
  {[routeId |-> ro, pathname |-> pa, fetch |-> <<"original">>, params |-> pm] :
     ro \in {None, Some(RouteText), Some(OtherRouteText)},
     pa \in {PathText, RouteText},
     pm \in {"p1", "p2"}}

PageloadContext ==
  [op |-> "pageload", name |-> PathText, status |-> "ok",
   traceId |-> None, parentSpanId |-> None, parentSampled |-> Some(TRUE),
   source |-> "url", dsc |-> Some(<<DscEntries[1]>>)]

PageloadTransaction == startTransaction(PageloadContext, "pageload")


\* ------------------------------------------------- instrumentSvelteKitFetch
MaxFetches == 1
FetchNames == <<"f1", "f2", "f3", "f4">>
ClientSpanNames == {"active"} \cup {FetchNames[i] : i \in 1..MaxFetches}

GetText == <<"G", "E", "T">>
PostText == <<"P", "O", "S", "T">>
SentryKeyText == <<"s", "e", "n", "t", "r", "y", "_", "k", "e", "y">>
LocalhostText == <<"l", "o", "c", "a", "l", "h", "o", "s", "t">>

\* String.prototype.includes
Includes(str, sub) ==
  \E i \in 1..(Len(str) - Len(sub) + 1) : SubSeq(str, i, i + Len(sub) - 1) = sub

\* A pattern of the allow-list: a string (matched as a substring) or the regular
\* expression /^\//.
StringPattern(t) == [re |-> FALSE, text |-> t]
RootRelativePattern == [re |-> TRUE, text |-> <<"/">>]

isMatchingPattern(str, pattern) ==
  IF pattern.re THEN (Len(str) >= 1 /\ str[1] = "/") ELSE Includes(str, pattern.text)

\* stringMatchesSomePattern
stringMatchesSomePattern(str, patterns) ==
  \E i \in 1..Len(patterns) : isMatchingPattern(str, patterns[i])

\* Line 122: the default allow-list ['localhost', /^\//].
DefaultTargets == <<StringPattern(LocalhostText), RootRelativePattern>>

\* getFetchUrl: the string input, or the url of the Request input.
getFetchUrl(args) == args.input.url

\* getFetchMethod: the method of a Request input, else of the init, else GET.
getFetchMethod(args) ==
  IF args.input.isRequest /\ IsSome(args.input.method) THEN Get(args.input.method)
  ELSE IF IsSome(args.init) /\ IsSome(Get(args.init).method) THEN Get(Get(args.init).method)
  ELSE GetText

\* stripUrlQueryAndFragment: the url up to its first '?' or '#'.
CutAt(url, stops) ==
  IF stops = {} THEN url ELSE SubSeq(url, 1, (CHOOSE i \in stops : \A j \in stops : i <= j) - 1)

stripUrlQueryAndFragment(url) == CutAt(url, {i \in 1..Len(url) : url[i] \in {"?", "#"}})

\* Lines 107-109: browserTracingOptions && browserTracingOptions.traceFetch
shouldTraceFetch(cfg) == IsSome(cfg.browserTracing) /\ Get(cfg.browserTracing).traceFetch

\* Line 110: breadcrumbsIntegration && breadcrumbsIntegration.options.fetch
shouldAddFetchBreadcrumbs(cfg) == IsSome(cfg.breadcrumbs) /\ Get(cfg.breadcrumbs).fetch

\* Lines 113-116.
shouldCreateSpan(cfg, url) ==
  IF IsSome(cfg.browserTracing) /\ IsSome(Get(cfg.browserTracing).shouldCreateSpanForRequest)
    THEN Get(Get(cfg.browserTracing).shouldCreateSpanForRequest) = "always"
  ELSE shouldTraceFetch(cfg)

TargetsOf(cfg) ==
  IF IsSome(Get(cfg.browserTracing).tracePropagationTargets)
    THEN Get(Get(cfg.browserTracing).tracePropagationTargets)
  ELSE DefaultTargets

shouldAttachHeaders_allUrls(cfg, url) == shouldTraceFetch(cfg)

\* Lines 119-124.
shouldAttachHeaders(cfg, url) ==
  shouldTraceFetch(cfg) /\ stringMatchesSomePattern(url, TargetsOf(cfg))

isBypassed_anyMethod(rawUrl, method) == Includes(rawUrl, SentryKeyText)

\* Line 134: rawUrl.match(/sentry_key/) && method === 'POST'
isBypassed(rawUrl, method) == Includes(rawUrl, SentryKeyText) /\ method = PostText

\* Line 139: { ...init } || {}
patchedInitOf(init) == IF IsSome(init) THEN Get(init) ELSE [method |-> None, headers |-> None]

\* Lines 140-141: activeSpan && activeSpan.transaction
hasActiveTransaction(scope, spans) ==
  IsSome(scope) /\ Get(spans[Get(scope)]).transaction # "none"

doInject_withoutSpanCheck(cfg, rawUrl, scope, spans) ==
  shouldAttachHeaders(cfg, rawUrl) /\ hasActiveTransaction(scope, spans)

\* Line 146.
doInject(cfg, rawUrl, scope, spans) ==
  shouldAttachHeaders(cfg, rawUrl) /\ shouldCreateSpan(cfg, rawUrl) /\ hasActiveTransaction(scope, spans)

\* Lines 146-161: the init the original fetch is dispatched with.
InitWithHeaders(patchedInit, injected) == [patchedInit EXCEPT !.headers = Some(injected.headers)]

dispatchedInitOf(cfg, args, scope, spans, dsc) ==
  IF doInject(cfg, getFetchUrl(args), scope, spans)
    THEN InitWithHeaders(patchedInitOf(args.init),
           addTracingHeadersToFetchRequest(args.input, dsc, Get(spans[Get(scope)]),
                                           [headers |-> patchedInitOf(args.init).headers]))
  ELSE patchedInitOf(args.init)

\* Lines 167-174: the span context of the fetch.
fetchContext(method, sanitizedUrl) ==
  [op |-> "http.client",
   name |-> method \o <<" ">> \o sanitizedUrl,
   status |-> "unset",
   traceId |-> None, parentSpanId |-> None, parentSampled |-> None,
   source |-> "custom", dsc |-> None]

initAfterPatch_aliased(init, patchedInit) == IF IsSome(init) THEN Some(patchedInit) ELSE init

\* Lines 139 and 160: patchedInit is a spread copy of init and the headers are assigned
\* to the copy; the init of the caller keeps its fields.
initAfterPatch(init, patchedInit) == init

\* Lines 139-161: the arguments of the caller after the call. patchedInit.headers and the
\* headers of a Request input are the caller's own objects when they go to the injector.
inputAfterCall(cfg, args, scope, spans, dsc) ==
  IF doInject(cfg, getFetchUrl(args), scope, spans) /\ args.input.isRequest
    THEN [args.input EXCEPT !.headers =
            headersAfterInjection(@, Get(dispatchedInitOf(cfg, args, scope, spans, dsc).headers))]
  ELSE args.input

initHeadersAfterCall(cfg, args, scope, spans, dsc) ==
  IF /\ doInject(cfg, getFetchUrl(args), scope, spans)
     /\ ~args.input.isRequest /\ IsSome(args.init) /\ IsSome(Get(args.init).headers)
    THEN Some([Get(args.init) EXCEPT !.headers =
                 Some(headersAfterInjection(Get(@), Get(dispatchedInitOf(cfg, args, scope, spans, dsc).headers)))])
  ELSE args.init

argsAfterCall(cfg, args, scope, spans, dsc) ==
  [input |-> inputAfterCall(cfg, args, scope, spans, dsc),
   init |-> initAfterPatch(initHeadersAfterCall(cfg, args, scope, spans, dsc),
                           dispatchedInitOf(cfg, args, scope, spans, dsc))]

FetchCallRecord(args, caller, bypass, inject, attachSpan, dispatched, log) ==
  [args |-> args, caller |-> caller,
   bypass |-> bypass, injected |-> inject, attachSpan |-> attachSpan,
   activeSpan |-> fScope,
   dispatched |-> dispatched, dispatches |-> 1,
   res |-> None, out |-> None, log |-> log]

CallLog_dispatchFirst(bypass, inject, attachSpan) ==
  IF bypass THEN <<"dispatch">>
  ELSE <<"dispatch", "decide">> \o (IF inject THEN <<"inject">> ELSE <<>>)
         \o (IF attachSpan THEN <<"startSpan">> ELSE <<>>)

\* The steps of a call up to the dispatch of the original fetch.
CallLog(bypass, inject, attachSpan) ==
  IF bypass THEN <<"dispatch">>
  ELSE <<"decide">> \o (IF inject THEN <<"inject">> ELSE <<>>)
         \o (IF attachSpan THEN <<"startSpan">> ELSE <<>>) \o <<"dispatch">>

\* Lines 134-137: an internal request goes to the original fetch with the caller's arguments.
FetchBypass(args) ==
  /\ fpc = "instrumented" /\ Len(fCalls) < MaxFetches
  /\ isBypassed(getFetchUrl(args), getFetchMethod(args))
  /\ fCalls' = Append(fCalls, FetchCallRecord(args, args, TRUE, FALSE, FALSE, args, CallLog(TRUE, FALSE, FALSE)))
  /\ UNCHANGED <<fpc, fCfg, fSpans, fScope, fTxDsc, fBreadcrumbs>>
  /\ UNCHANGED otherThanFetch

\* Lines 139-185, span creation applies: the headers are injected when line 146 says so,
\* trace() opens the span on the scope and the callback dispatches the original fetch.
FetchWithSpan(args) ==
  /\ fpc = "instrumented" /\ Len(fCalls) < MaxFetches
  /\ ~isBypassed(getFetchUrl(args), getFetchMethod(args))
  /\ shouldCreateSpan(fCfg, getFetchUrl(args))
  /\ fCalls' = Append(fCalls,
       FetchCallRecord(args, argsAfterCall(fCfg, args, fScope, fSpans, fTxDsc),
                       FALSE, doInject(fCfg, getFetchUrl(args), fScope, fSpans), TRUE,
                       [input |-> args.input,
                        init |-> Some(dispatchedInitOf(fCfg, args, fScope, fSpans, fTxDsc))],
                       CallLog(FALSE, doInject(fCfg, getFetchUrl(args), fScope, fSpans), TRUE)))
  /\ fSpans' = [fSpans EXCEPT ![FetchNames[Len(fCalls) + 1]] =
                  Some([traceStart(fScope, fSpans,
                                   fetchContext(getFetchMethod(args), stripUrlQueryAndFragment(getFetchUrl(args))),
                                   FetchNames[Len(fCalls) + 1])
                        EXCEPT !.parentName = fScope])]
  /\ fScope' = Some(FetchNames[Len(fCalls) + 1])
  /\ UNCHANGED <<fpc, fCfg, fTxDsc, fBreadcrumbs>>
  /\ UNCHANGED otherThanFetch

\* Lines 139-161 and 184, no span is created: the original fetch is dispatched directly.
FetchWithoutSpan(args) ==
  /\ fpc = "instrumented" /\ Len(fCalls) < MaxFetches
  /\ ~isBypassed(getFetchUrl(args), getFetchMethod(args))
  /\ ~shouldCreateSpan(fCfg, getFetchUrl(args))
  /\ fCalls' = Append(fCalls,
       FetchCallRecord(args, argsAfterCall(fCfg, args, fScope, fSpans, fTxDsc),
                       FALSE, doInject(fCfg, getFetchUrl(args), fScope, fSpans), FALSE,
                       [input |-> args.input,
                        init |-> Some(dispatchedInitOf(fCfg, args, fScope, fSpans, fTxDsc))],
                       CallLog(FALSE, doInject(fCfg, getFetchUrl(args), fScope, fSpans), FALSE)))
  /\ UNCHANGED <<fpc, fCfg, fSpans, fScope, fTxDsc, fBreadcrumbs>>
  /\ UNCHANGED otherThanFetch

breadcrumbOf_noLevel(i, call, res) ==
  [by |-> i, type |-> "http", category |-> "fetch",
   level |-> None,
   method |-> getFetchMethod(call.args),
   url |-> stripUrlQueryAndFragment(getFetchUrl(call.args)),
   status_code |-> Some(res.status),
   hintData |-> IF res.kind = "rejected" THEN Some(res.err) ELSE None]

\* Lines 197-244, addFetchBreadcrumbs: the breadcrumb of a settled fetch.
breadcrumbOf(i, call, res) ==
  [by |-> i, type |-> "http", category |-> "fetch",
   level |-> IF res.kind = "rejected" THEN Some("error") ELSE None,
   method |-> getFetchMethod(call.args),
   url |-> stripUrlQueryAndFragment(getFetchUrl(call.args)),
   status_code |-> IF res.kind = "fulfilled" THEN Some(res.status) ELSE None,
   hintData |-> IF res.kind = "rejected" THEN Some(res.err) ELSE None]

BreadcrumbsAfter(i, call, res) ==
  IF ~call.bypass /\ shouldAddFetchBreadcrumbs(fCfg) THEN Append(fBreadcrumbs, breadcrumbOf(i, call, res))
  ELSE fBreadcrumbs

SpanAfter_unfinished(span, res) ==
  IF res.kind = "fulfilled" THEN setHttpStatus(span, res.status)
  ELSE finish(setStatus(span, "internal_error"))

\* The span of call i after the original fetch settled with res: the status of the
\* response (lines 177-179) or internal_error, and finished by trace().
SpanAfter(span, res) ==
  IF res.kind = "fulfilled" THEN finish(setHttpStatus(span, res.status))
  ELSE finish(setStatus(span, "internal_error"))

SettleLog(call, res) ==
  <<"settle">>
    \o (IF call.attachSpan /\ res.kind = "fulfilled" THEN <<"setHttpStatus", "finish">>
        ELSE IF call.attachSpan THEN <<"setStatus", "finish">> ELSE <<>>)
    \o (IF ~call.bypass /\ shouldAddFetchBreadcrumbs(fCfg) THEN <<"breadcrumb">> ELSE <<>>)

FetchOutcome_chained(call, res) ==
  IF ~call.bypass /\ shouldAddFetchBreadcrumbs(fCfg) THEN Fulfilled(0)
  ELSE IF call.attachSpan /\ res.kind = "rejected" THEN Rejected(traceRethrow(res.err, None)) ELSE res

\* Line 191 returns fetchPromise itself, not the promise of its then-handlers.
\* What the promise the caller holds settles with.
FetchOutcome(call, res) ==
  IF call.attachSpan /\ res.kind = "rejected" THEN Rejected(traceRethrow(res.err, None)) ELSE res

FetchErrors == {ObjectErr("network")}

\* The original fetch of call i settles with res: the span, if any, gets its status and is
\* finished and the scope gets parentSpan back; the breadcrumb, if any, is recorded; the
\* promise of the caller settles.
FetchSettled(i, res) ==
  /\ fpc = "instrumented"
  /\ fCalls[i].res = None
  /\ fCalls' = [fCalls EXCEPT ![i].res = Some(res),
                              ![i].out = Some(FetchOutcome(fCalls[i], res)),
                              ![i].log = @ \o SettleLog(fCalls[i], res)]
  /\ IF fCalls[i].attachSpan
       THEN /\ fSpans' = [fSpans EXCEPT ![FetchNames[i]] = Some(SpanAfter(Get(@), res))]
            /\ fScope' = Get(fSpans[FetchNames[i]]).parentName
       ELSE UNCHANGED <<fSpans, fScope>>
  /\ fBreadcrumbs' = BreadcrumbsAfter(i, fCalls[i], res)
  /\ UNCHANGED <<fpc, fCfg, fTxDsc>>
  /\ UNCHANGED otherThanFetch

FetchFulfil(i, status) == FetchSettled(i, Fulfilled(status))

FetchReject(i, e) == FetchSettled(i, Rejected(e))

\* ---------------------------------------------------------- fetch inputs
LocalhostApi == <<"h", "t", "t", "p", "s", ":", "/", "/", "l", "o", "c", "a", "l", "h", "o", "s", "t", "/", "a", "p", "i", "?", "q", "=", "1">>
EvilUrl == <<"h", "t", "t", "p", "s", ":", "/", "/", "e", "v", "i", "l", ".", "e", "x", "a", "m", "p", "l", "e">>
RootRelativeUrl == <<"/", "a", "p", "i">>
IngestUrl == <<"h", "t", "t", "p", "s", ":", "/", "/", "o", ".", "i", "o", "/", "?", "s", "e", "n", "t", "r", "y", "_", "k", "e", "y", "=", "k">>
LookalikeUrl == <<"h", "t", "t", "p", "s", ":", "/", "/", "e", "v", "i", "l", ".", "e", "x", "a", "m", "p", "l", "e", "/", "l", "o", "c", "a", "l", "h", "o", "s", "t">>
FetchUrls == {LocalhostApi, EvilUrl, RootRelativeUrl, IngestUrl, LookalikeUrl}

StringArg(url) == [isRequest |-> FALSE, url |-> url, method |-> None, headers |-> HeadersObj(<<>>)]
RequestArg(url, method, es) == [isRequest |-> TRUE, url |-> url, method |-> Some(method), headers |-> HeadersObj(es)]

FetchArgs ==
  UNION {{[input |-> StringArg(u), init |-> None],
          [input |-> StringArg(u), init |-> Some([method |-> Some(PostText), headers |-> None])],
          [input |-> StringArg(u), init |-> Some([method |-> None,
                                                  headers |-> Some(Mapping([k \in {"x"} |-> StrVal(X1)]))])],
          [input |-> RequestArg(u, GetText, <<<<"x", X1>>>>), init |-> None]} : u \in FetchUrls}

ActiveSpanContext ==
  [op |-> "function.sveltekit.load", name |-> RouteText, status |-> "ok",
   traceId |-> None, parentSpanId |-> None, parentSampled |-> None, source |-> "route", dsc |-> None]

ActiveSpans ==
  {[startChild(PageloadTransaction, ActiveSpanContext, "active") EXCEPT !.transaction = tx] :
     tx \in {"pageload", "none"}}

BrowserTracingOptions ==
  {[traceFetch |-> tf, shouldCreateSpanForRequest |-> sc, tracePropagationTargets |-> tg] :
     tf \in BOOLEAN, sc \in {None, Some("always"), Some("never")},
     tg \in {None, Some(<<StringPattern(LocalhostText)>>)}}

ClientConfigs ==
  {[browserTracing |-> bt, breadcrumbs |-> bc] :
     bt \in {None} \cup {Some(o) : o \in BrowserTracingOptions},
     bc \in {None, Some([fetch |-> TRUE])}}

\* ------------------------------------------------------- handle inputs
Garbage == <<"g", "a", "r", "b", "a", "g", "e">>
FlagOnly == <<"0">>
ValidTraceparent == toTraceparent(Rep("c", TraceIdLen), Rep("d", SpanIdLen), Some(TRUE))
SentryBaggage == SENTRY_BAGGAGE_KEY_PREFIX \o <<"t", "=", "1">>

InboundRequests ==
  {[sentryTrace |-> st, baggage |-> bg, method |-> GetText, routeId |-> ro, pathname |-> PathText] :
     st \in {None, Some(ValidTraceparent), Some(Garbage), Some(FlagOnly)},
     bg \in {None, Some(A1 \o <<",">> \o SentryBaggage)},
     ro \in {None, Some(RouteText)}}

\* The requests in flight: request A is any inbound request, request B varies in its
\* sentry-trace header only.
HandleInputs ==
  {f \in [Requests -> InboundRequests] : f["B"].baggage = None /\ IsSome(f["B"].routeId)}

\* ------------------------------------------------------- codec inputs
MaxPad == 1
TraceRunLens == {0, 1, SpanIdLen, TraceIdLen - 1, TraceIdLen, TraceIdLen + 1}
SpanRunLens == {0, 1, SpanIdLen - 1, SpanIdLen, SpanIdLen + 1}
RunChars == {"0", "a", "g"}
Pads == UNION {[1..n -> WsChars] : n \in 0..MaxPad}
Dashes == {<<>>, <<"-">>}
FlagTexts == {<<>>, <<"0">>, <<"1">>, <<"2">>}

Runs(lens) == {Rep(c, n) : c \in RunChars, n \in lens}

\* Header strings of the shape <pad><run><dash?><run><dash?><flag?><pad>, and "garbage".
CodecInputs ==
  {Garbage} \cup
  {p1 \o t \o d1 \o s \o d2 \o f \o p2 :
     p1 \in Pads, t \in Runs(TraceRunLens), d1 \in Dashes, s \in Runs(SpanRunLens),
     d2 \in Dashes, f \in FlagTexts, p2 \in Pads}

\* Valid triples: 32 and 16 lowercase hex characters and a sampling decision (or none).
IdChars == {"0", "1", "a", "f"}
MixedId(c1, c2, n) == [i \in 1..n |-> IF i % 2 = 1 THEN c1 ELSE c2]
Triples ==
  {[traceId |-> MixedId(c1, c2, TraceIdLen), spanId |-> MixedId(c3, c1, SpanIdLen), sampled |-> sm] :
     c1 \in IdChars, c2 \in IdChars, c3 \in IdChars, sm \in {Some(TRUE), Some(FALSE), None}}

\* One call of extractTraceparentData on the header string.
Parse ==
  /\ tpSteps = 0
  /\ tpResult' = Some(extractTraceparentData(tpInput))
  /\ tpSteps' = tpSteps + 1
  /\ UNCHANGED <<tpInput, tpTriple>>
  /\ UNCHANGED otherThanCodec

vars == <<tpInput, tpTriple, tpResult, tpSteps, injRequest, injOptions, injDsc, injSpan, injResult,
          hReq, hpc, hSpan, hScope, hParent, hRes, hOut, hCaptured, hLookups, hChunks, hLog,
          lEvent, lpc, lSpans, lScope, lParent, lPatched, lCalls, lRes, lOut, lCaptured, lLog,
          fpc, fCfg, fSpans, fScope, fTxDsc, fCalls, fBreadcrumbs, hPage, pgTx, pgHtml, pgOut>>

IdleSpan == [traceId |-> Rep("a", TraceIdLen), spanId |-> Rep("b", SpanIdLen), sampled |-> None]
IdleRequest ==
  [sentryTrace |-> None, baggage |-> None, method |-> GetText, routeId |-> None, pathname |-> PathText]

\* ------------------------------------------------------------ the codec
CodecInit ==
  /\ tpResult = None
  /\ tpSteps = 0
  /\ \/ /\ tpTriple = None
        /\ tpInput \in CodecInputs
     \/ \E t \in Triples :
          /\ tpTriple = Some(t)
          /\ tpInput = toTraceparent(t.traceId, t.spanId, t.sampled)
  /\ injRequest = UrlInput /\ injOptions = [headers |-> None] /\ injDsc = <<>>
  /\ injSpan = IdleSpan /\ injResult = None
  /\ hReq = [r \in Requests |-> IdleRequest]
  /\ hpc = [r \in Requests |-> "off"]
  /\ hSpan = [r \in Requests |-> None]
  /\ hScope = [h \in Hubs |-> None]
  /\ hParent = [r \in Requests |-> None]
  /\ hRes = [r \in Requests |-> None]
  /\ hOut = [r \in Requests |-> None]
  /\ hCaptured = <<>>
  /\ hLookups = [r \in Requests |-> {}]
  /\ hChunks = [r \in Requests |-> 0]
  /\ hLog = [r \in Requests |-> <<>>]
  /\ hPage = [r \in Requests |-> None]
  /\ pgTx = None /\ pgHtml = <<>> /\ pgOut = None
  /\ lEvent = [routeId |-> None, pathname |-> PathText, fetch |-> <<"original">>, params |-> "p1"]
  /\ lpc = "off" /\ lSpans = [n \in SpanNames |-> None] /\ lScope = None /\ lParent = None
  /\ lPatched = None /\ lCalls = 0 /\ lRes = None /\ lOut = None /\ lCaptured = <<>> /\ lLog = <<>>
  /\ fpc = "off" /\ fCfg = [browserTracing |-> None, breadcrumbs |-> None]
  /\ fSpans = [n \in ClientSpanNames |-> None] /\ fScope = None /\ fTxDsc = <<>>
  /\ fCalls = <<>> /\ fBreadcrumbs = <<>>

CodecNext == Parse

SpecCodec == CodecInit /\ [][CodecNext]_vars

\* ---------------------------------------------------------- the injector
InjectInit ==
  /\ injRequest \in FetchInputs
  /\ injOptions \in {[headers |-> h] : h \in {None} \cup {Some(c) : c \in Containers}}
  /\ injDsc \in Dscs
  /\ injSpan \in Spans
  /\ injResult = None
  /\ tpInput = <<>> /\ tpTriple = None /\ tpResult = None /\ tpSteps = 0
  /\ hReq = [r \in Requests |-> IdleRequest]
  /\ hpc = [r \in Requests |-> "off"]
  /\ hSpan = [r \in Requests |-> None]
  /\ hScope = [h \in Hubs |-> None]
  /\ hParent = [r \in Requests |-> None]
  /\ hRes = [r \in Requests |-> None]
  /\ hOut = [r \in Requests |-> None]
  /\ hCaptured = <<>>
  /\ hLookups = [r \in Requests |-> {}]
  /\ hChunks = [r \in Requests |-> 0]
  /\ hLog = [r \in Requests |-> <<>>]
  /\ hPage = [r \in Requests |-> None]
  /\ pgTx = None /\ pgHtml = <<>> /\ pgOut = None
  /\ lEvent = [routeId |-> None, pathname |-> PathText, fetch |-> <<"original">>, params |-> "p1"]
  /\ lpc = "off" /\ lSpans = [n \in SpanNames |-> None] /\ lScope = None /\ lParent = None
  /\ lPatched = None /\ lCalls = 0 /\ lRes = None /\ lOut = None /\ lCaptured = <<>> /\ lLog = <<>>
  /\ fpc = "off" /\ fCfg = [browserTracing |-> None, breadcrumbs |-> None]
  /\ fSpans = [n \in ClientSpanNames |-> None] /\ fScope = None /\ fTxDsc = <<>>
  /\ fCalls = <<>> /\ fBreadcrumbs = <<>>

InjectNext == Inject

SpecInject == InjectInit /\ [][InjectNext]_vars

\* ------------------------------------------------------ the request handler
HandleInit ==
  /\ hReq \in HandleInputs
  /\ hpc = [r \in Requests |-> "received"]
  /\ hSpan = [r \in Requests |-> None]
  /\ hScope = [h \in Hubs |-> None]
  /\ hParent = [r \in Requests |-> None]
  /\ hRes = [r \in Requests |-> None]
  /\ hOut = [r \in Requests |-> None]
  /\ hCaptured = <<>>
  /\ hLookups = [r \in Requests |-> {}]
  /\ hChunks = [r \in Requests |-> 0]
  /\ hLog = [r \in Requests |-> <<>>]
  /\ hPage = [r \in Requests |-> None]
  /\ pgTx = None /\ pgHtml = <<>> /\ pgOut = None
  /\ tpInput = <<>> /\ tpTriple = None /\ tpResult = None /\ tpSteps = 0
  /\ injRequest = UrlInput /\ injOptions = [headers |-> None] /\ injDsc = <<>>
  /\ injSpan = IdleSpan /\ injResult = None
  /\ lEvent = [routeId |-> None, pathname |-> PathText, fetch |-> <<"original">>, params |-> "p1"]
  /\ lpc = "off" /\ lSpans = [n \in SpanNames |-> None] /\ lScope = None /\ lParent = None
  /\ lPatched = None /\ lCalls = 0 /\ lRes = None /\ lOut = None /\ lCaptured = <<>> /\ lLog = <<>>
  /\ fpc = "off" /\ fCfg = [browserTracing |-> None, breadcrumbs |-> None]
  /\ fSpans = [n \in ClientSpanNames |-> None] /\ fScope = None /\ fTxDsc = <<>>
  /\ fCalls = <<>> /\ fBreadcrumbs = <<>>

HandleNext ==
  \/ \E r \in Requests : HandleStart(r)
  \/ \E r \in Requests : TransformChunk(r)
  \/ \E r \in Requests : ResolveFulfil(r)
  \/ \E r \in Requests : ResolveReject(r)
  \/ \E r \in Requests : HandleContinue(r)
  \/ \E r \in Requests : TraceFinish(r)
  \/ \E r \in Requests : TraceError(r)

SpecHandle == HandleInit /\ [][HandleNext]_vars

\* The continuations of a settled promise are run by the event loop.
HandleFairness ==
  \A r \in Requests :
    WF_vars(HandleContinue(r)) /\ WF_vars(TraceFinish(r)) /\ WF_vars(TraceError(r))

FairSpecHandle == SpecHandle /\ HandleFairness

\* ------------------------------------------------------- the wrapped load
LoadInit ==
  /\ lEvent \in LoadEvents
  /\ lpc = "idle"
  /\ \/ lScope = None /\ lSpans = [n \in SpanNames |-> None]
     \/ /\ lScope = Some("pageload")
        /\ lSpans = [n \in SpanNames |-> IF n = "pageload" THEN Some(PageloadTransaction) ELSE None]
  /\ lParent = None /\ lPatched = None /\ lCalls = 0 /\ lRes = None /\ lOut = None
  /\ lCaptured = <<>> /\ lLog = <<>>
  /\ tpInput = <<>> /\ tpTriple = None /\ tpResult = None /\ tpSteps = 0
  /\ injRequest = UrlInput /\ injOptions = [headers |-> None] /\ injDsc = <<>>
  /\ injSpan = IdleSpan /\ injResult = None
  /\ hReq = [r \in Requests |-> IdleRequest]
  /\ hpc = [r \in Requests |-> "off"]
  /\ hSpan = [r \in Requests |-> None]
  /\ hScope = [h \in Hubs |-> None]
  /\ hParent = [r \in Requests |-> None]
  /\ hRes = [r \in Requests |-> None]
  /\ hOut = [r \in Requests |-> None]
  /\ hCaptured = <<>>
  /\ hLookups = [r \in Requests |-> {}]
  /\ hChunks = [r \in Requests |-> 0]
  /\ hLog = [r \in Requests |-> <<>>]
  /\ hPage = [r \in Requests |-> None]
  /\ pgTx = None /\ pgHtml = <<>> /\ pgOut = None
  /\ fpc = "off" /\ fCfg = [browserTracing |-> None, breadcrumbs |-> None]
  /\ fSpans = [n \in ClientSpanNames |-> None] /\ fScope = None /\ fTxDsc = <<>>
  /\ fCalls = <<>> /\ fBreadcrumbs = <<>>

LoadNext ==
  \/ LoadCall
  \/ LoadReturn
  \/ LoadThrow
  \/ LoadReturnPromise
  \/ LoadFulfil
  \/ LoadReject

SpecLoad == LoadInit /\ [][LoadNext]_vars

FetchInit ==
  /\ fpc = "instrumented" /\ fCfg \in ClientConfigs
  /\ \E active \in {None} \cup {Some(a) : a \in ActiveSpans} :
       /\ fSpans = [n \in ClientSpanNames |-> IF n = "active" THEN active ELSE None]
       /\ fScope = IF active = None THEN None ELSE Some("active")
       /\ fTxDsc \in IF active # None /\ Get(active).transaction # "none"
                        THEN {<<>>, <<DscEntries[1]>>} ELSE {<<>>}
  /\ fCalls = <<>> /\ fBreadcrumbs = <<>>
  /\ tpInput = <<>> /\ tpTriple = None /\ tpResult = None /\ tpSteps = 0
  /\ injRequest = UrlInput /\ injOptions = [headers |-> None] /\ injDsc = <<>>
  /\ injSpan = IdleSpan /\ injResult = None
  /\ hReq = [r \in Requests |-> IdleRequest]
  /\ hpc = [r \in Requests |-> "off"]
  /\ hSpan = [r \in Requests |-> None]
  /\ hScope = [h \in Hubs |-> None]
  /\ hParent = [r \in Requests |-> None]
  /\ hRes = [r \in Requests |-> None]
  /\ hOut = [r \in Requests |-> None]
  /\ hCaptured = <<>>
  /\ hLookups = [r \in Requests |-> {}]
  /\ hChunks = [r \in Requests |-> 0]
  /\ hLog = [r \in Requests |-> <<>>]
  /\ hPage = [r \in Requests |-> None]
  /\ pgTx = None /\ pgHtml = <<>> /\ pgOut = None
  /\ lEvent = [routeId |-> None, pathname |-> PathText, fetch |-> <<"original">>, params |-> "p1"]
  /\ lpc = "off" /\ lSpans = [n \in SpanNames |-> None] /\ lScope = None /\ lParent = None
  /\ lPatched = None /\ lCalls = 0 /\ lRes = None /\ lOut = None /\ lCaptured = <<>> /\ lLog = <<>>

FetchNext ==
  \/ \E args \in FetchArgs : FetchBypass(args)
  \/ \E args \in FetchArgs : FetchWithSpan(args)
  \/ \E args \in FetchArgs : FetchWithoutSpan(args)
  \/ \E i \in 1..Len(fCalls), status \in {200, 500} : FetchFulfil(i, status)
  \/ \E i \in 1..Len(fCalls), e \in FetchErrors : FetchReject(i, e)

SpecFetch == FetchInit /\ [][FetchNext]_vars

\* transformPageChunk on its own: the chunk and the active transaction are drawn.
Chunks ==
  {<<"<", "h", "t", "m", "l", ">", "<", "h", "e", "a", "d", ">", "<", "t", "i", "t", "l", "e", ">">>,
   <<"<", "p", ">", "x", "<", "/", "p", ">">>,
   <<"<", "h", "e", "a", "d", ">", "<", "h", "e", "a", "d", ">">>,
   <<"<", "h", "e", "a", "d", "e", "r", ">", "<", "h", "e", "a", "d", ">", "a">>,
   <<"<", "H", "E", "A", "D", ">">>,
   <<"<", "h", "e", "a", "d">>,
   <<>>}

ActiveTransactions == {startTransaction(handleContext(req), "A") : req \in InboundRequests}

PageChunk ==
  /\ pgOut = None
  /\ pgOut' = Some(transformPageChunk(pgTx, pgHtml))
  /\ UNCHANGED <<pgTx, pgHtml>>
  /\ UNCHANGED otherThanPage

PageInit ==
  /\ pgTx \in {None} \cup {Some(t) : t \in ActiveTransactions}
  /\ pgHtml \in Chunks
  /\ pgOut = None
  /\ tpInput = <<>> /\ tpTriple = None /\ tpResult = None /\ tpSteps = 0
  /\ injRequest = UrlInput /\ injOptions = [headers |-> None] /\ injDsc = <<>>
  /\ injSpan = IdleSpan /\ injResult = None
  /\ hReq = [r \in Requests |-> IdleRequest]
  /\ hpc = [r \in Requests |-> "off"]
  /\ hSpan = [r \in Requests |-> None]
  /\ hScope = [h \in Hubs |-> None]
  /\ hParent = [r \in Requests |-> None]
  /\ hRes = [r \in Requests |-> None]
  /\ hOut = [r \in Requests |-> None]
  /\ hCaptured = <<>>
  /\ hLookups = [r \in Requests |-> {}]
  /\ hChunks = [r \in Requests |-> 0]
  /\ hPage = [r \in Requests |-> None]
  /\ hLog = [r \in Requests |-> <<>>]
  /\ lEvent = [routeId |-> None, pathname |-> PathText, fetch |-> <<"original">>, params |-> "p1"]
  /\ lpc = "off" /\ lSpans = [n \in SpanNames |-> None] /\ lScope = None /\ lParent = None
  /\ lPatched = None /\ lCalls = 0 /\ lRes = None /\ lOut = None /\ lCaptured = <<>> /\ lLog = <<>>
  /\ fpc = "off" /\ fCfg = [browserTracing |-> None, breadcrumbs |-> None]
  /\ fSpans = [n \in ClientSpanNames |-> None] /\ fScope = None /\ fTxDsc = <<>>
  /\ fCalls = <<>> /\ fBreadcrumbs = <<>>

PageNext == PageChunk

SpecPage == PageInit /\ [][PageNext]_vars

\* The three wrappers together: the program starts as a server handling requests, as a
\* client about to call a wrapped load, or as a client holding an instrumented fetch.
KitInit ==
  \E mode \in {"handle", "load", "fetch"} :
    /\ hReq \in IF mode = "handle" THEN HandleInputs ELSE {[r \in Requests |-> IdleRequest]}
    /\ hpc = [r \in Requests |-> IF mode = "handle" THEN "received" ELSE "off"]
    /\ hSpan = [r \in Requests |-> None]
    /\ hScope = [h \in Hubs |-> None]
    /\ hParent = [r \in Requests |-> None]
    /\ hRes = [r \in Requests |-> None]
    /\ hOut = [r \in Requests |-> None]
    /\ hCaptured = <<>>
    /\ hLookups = [r \in Requests |-> {}]
    /\ hChunks = [r \in Requests |-> 0]
    /\ hLog = [r \in Requests |-> <<>>]
    /\ hPage = [r \in Requests |-> None]
    /\ pgTx = None /\ pgHtml = <<>> /\ pgOut = None
    /\ lEvent \in IF mode = "load" THEN LoadEvents
                  ELSE {[routeId |-> None, pathname |-> PathText, fetch |-> <<"original">>, params |-> "p1"]}
    /\ lpc = IF mode = "load" THEN "idle" ELSE "off"
    /\ \E pageload \in IF mode = "load" THEN BOOLEAN ELSE {FALSE} :
         /\ lScope = IF pageload THEN Some("pageload") ELSE None
         /\ lSpans = [n \in SpanNames |->
                        IF pageload /\ n = "pageload" THEN Some(PageloadTransaction) ELSE None]
    /\ lParent = None /\ lPatched = None /\ lCalls = 0 /\ lRes = None /\ lOut = None
    /\ lCaptured = <<>> /\ lLog = <<>>
    /\ fpc = IF mode = "fetch" THEN "instrumented" ELSE "off"
    /\ fCfg \in IF mode = "fetch" THEN ClientConfigs ELSE {[browserTracing |-> None, breadcrumbs |-> None]}
    /\ \E active \in IF mode = "fetch" THEN {None} \cup {Some(a) : a \in ActiveSpans} ELSE {None} :
         /\ fSpans = [n \in ClientSpanNames |-> IF n = "active" THEN active ELSE None]
         /\ fScope = IF active = None THEN None ELSE Some("active")
         /\ fTxDsc \in IF active # None /\ Get(active).transaction # "none"
                          THEN {<<>>, <<DscEntries[1]>>} ELSE {<<>>}
    /\ fCalls = <<>> /\ fBreadcrumbs = <<>>
    /\ tpInput = <<>> /\ tpTriple = None /\ tpResult = None /\ tpSteps = 0
    /\ injRequest = UrlInput /\ injOptions = [headers |-> None] /\ injDsc = <<>>
    /\ injSpan = IdleSpan /\ injResult = None

KitNext ==
  \/ \E r \in Requests : HandleStart(r)
  \/ \E r \in Requests : TransformChunk(r)
  \/ \E r \in Requests : ResolveFulfil(r)
  \/ \E r \in Requests : ResolveReject(r)
  \/ \E r \in Requests : HandleContinue(r)
  \/ \E r \in Requests : TraceFinish(r)
  \/ \E r \in Requests : TraceError(r)
  \/ LoadCall
  \/ LoadReturn
  \/ LoadThrow
  \/ LoadReturnPromise
  \/ LoadFulfil
  \/ LoadReject
  \/ \E args \in FetchArgs : FetchBypass(args)
  \/ \E args \in FetchArgs : FetchWithSpan(args)
  \/ \E args \in FetchArgs : FetchWithoutSpan(args)
  \/ \E i \in 1..Len(fCalls), status \in {200, 500} : FetchFulfil(i, status)
  \/ \E i \in 1..Len(fCalls), e \in FetchErrors : FetchReject(i, e)

SpecKit == KitInit /\ [][KitNext]_vars

\* The continuations of a settled promise are microtasks the event loop runs.
FairSpecKit == SpecKit /\ HandleFairness

\* ------------------------------------- the callers of injector, load and fetch
\* One caller at a time hands its objects to the injector, to the wrapped load or to the
\* instrumented fetch.
CallerInit ==
  \E mode \in {"inject", "load", "fetch"} :
    /\ injRequest \in IF mode = "inject" THEN FetchInputs ELSE {UrlInput}
    /\ injOptions \in IF mode = "inject"
                        THEN {[headers |-> h] : h \in {None} \cup {Some(c) : c \in Containers}}
                      ELSE {[headers |-> None]}
    /\ injDsc \in IF mode = "inject" THEN Dscs ELSE {<<>>}
    /\ injSpan \in IF mode = "inject" THEN Spans ELSE {IdleSpan}
    /\ injResult = None
    /\ tpInput = <<>> /\ tpTriple = None /\ tpResult = None /\ tpSteps = 0
    /\ hReq = [r \in Requests |-> IdleRequest]
    /\ hpc = [r \in Requests |-> "off"]
    /\ hSpan = [r \in Requests |-> None]
    /\ hScope = [h \in Hubs |-> None]
    /\ hParent = [r \in Requests |-> None]
    /\ hRes = [r \in Requests |-> None]
    /\ hOut = [r \in Requests |-> None]
    /\ hCaptured = <<>>
    /\ hLookups = [r \in Requests |-> {}]
    /\ hChunks = [r \in Requests |-> 0]
    /\ hLog = [r \in Requests |-> <<>>]
    /\ hPage = [r \in Requests |-> None]
    /\ pgTx = None /\ pgHtml = <<>> /\ pgOut = None
    /\ lEvent \in IF mode = "load" THEN LoadEvents
                  ELSE {[routeId |-> None, pathname |-> PathText, fetch |-> <<"original">>, params |-> "p1"]}
    /\ lpc = IF mode = "load" THEN "idle" ELSE "off"
    /\ \E pageload \in IF mode = "load" THEN BOOLEAN ELSE {FALSE} :
         /\ lScope = IF pageload THEN Some("pageload") ELSE None
         /\ lSpans = [n \in SpanNames |->
                        IF pageload /\ n = "pageload" THEN Some(PageloadTransaction) ELSE None]
    /\ lParent = None /\ lPatched = None /\ lCalls = 0 /\ lRes = None /\ lOut = None
    /\ lCaptured = <<>> /\ lLog = <<>>
    /\ fpc = IF mode = "fetch" THEN "instrumented" ELSE "off"
    /\ fCfg \in IF mode = "fetch" THEN ClientConfigs ELSE {[browserTracing |-> None, breadcrumbs |-> None]}
    /\ \E active \in IF mode = "fetch" THEN {None} \cup {Some(a) : a \in ActiveSpans} ELSE {None} :
         /\ fSpans = [n \in ClientSpanNames |-> IF n = "active" THEN active ELSE None]
         /\ fScope = IF active = None THEN None ELSE Some("active")
         /\ fTxDsc \in IF active # None /\ Get(active).transaction # "none"
                          THEN {<<>>, <<DscEntries[1]>>} ELSE {<<>>}
    /\ fCalls = <<>> /\ fBreadcrumbs = <<>>

\* The direct call of the injector is taken when its caller is the one at work.
CallerNext ==
  \/ (lpc = "off" /\ fpc = "off" /\ Inject)
  \/ LoadCall
  \/ LoadReturn
  \/ LoadThrow
  \/ LoadReturnPromise
  \/ LoadFulfil
  \/ LoadReject
  \/ \E args \in FetchArgs : FetchBypass(args)
  \/ \E args \in FetchArgs : FetchWithSpan(args)
  \/ \E args \in FetchArgs : FetchWithoutSpan(args)
  \/ \E i \in 1..Len(fCalls), status \in {200, 500} : FetchFulfil(i, status)
  \/ \E i \in 1..Len(fCalls), e \in FetchErrors : FetchReject(i, e)

SpecCaller == CallerInit /\ [][CallerNext]_vars

\* ================================================================ C6, C7
Parsed == tpSteps = 1
ParseResult == Get(tpResult)

\* The string without its leading and trailing blanks and tabs.
Trim(s) ==
  LET keep == {i \in 1..Len(s) : s[i] \notin WsChars}
  IN  IF keep = {} THEN <<>>
      ELSE LET lo == CHOOSE i \in keep : \A j \in keep : i <= j
               hi == CHOOSE i \in keep : \A j \in keep : i >= j
           IN  SubSeq(s, lo, hi)

IsRun(x, n, S) == Len(x) = n /\ \A i \in 1..n : x[i] \in S

\* The whitespace/hyphen skeleton, stated as a language: the trimmed string splits into
\* an optional 32-hex run, an optional hyphen, an optional 16-hex run, an optional hyphen
\* and an optional flag digit.
Skeleton(s) ==
  LET x == Trim(s)
  IN  \E l1 \in {0, TraceIdLen}, l2 \in {0, 1}, l3 \in {0, SpanIdLen}, l4 \in {0, 1}, l5 \in {0, 1} :
        /\ l1 + l2 + l3 + l4 + l5 = Len(x)
        /\ IsRun(SubSeq(x, 1, l1), l1, HexChars)
        /\ IsRun(SubSeq(x, l1 + 1, l1 + l2), l2, {"-"})
        /\ IsRun(SubSeq(x, l1 + l2 + 1, l1 + l2 + l3), l3, HexChars)
        /\ IsRun(SubSeq(x, l1 + l2 + l3 + 1, l1 + l2 + l3 + l4), l4, {"-"})
        /\ IsRun(SubSeq(x, l1 + l2 + l3 + l4 + 1, Len(x)), l5, FlagChars)

\* The lengths of the maximal runs of hex characters of s.
HexRunLens(s) ==
  {hi - lo + 1 : <<lo, hi>> \in
     {r \in (1..Len(s)) \X (1..Len(s)) :
        /\ r[1] <= r[2]
        /\ \A i \in r[1]..r[2] : s[i] \in HexChars
        /\ (r[1] = 1 \/ s[r[1] - 1] \notin HexChars)
        /\ (r[2] = Len(s) \/ s[r[2] + 1] \notin HexChars)}}

BadHexRun(s) == \E n \in HexRunLens(s) : n \notin {TraceIdLen, SpanIdLen}

\* Both hyphens are written, and the hex run before the first or between the two has a wrong length.
TwoDashBadLen(s) ==
  LET x == Trim(s)
      ds == {i \in 1..Len(x) : x[i] = "-"}
  IN  /\ Cardinality(ds) = 2
      /\ LET d1 == CHOOSE i \in ds : \A j \in ds : i <= j
             d2 == CHOOSE i \in ds : \A j \in ds : i >= j
             t == SubSeq(x, 1, d1 - 1)
             sp == SubSeq(x, d1 + 1, d2 - 1)
         IN  /\ \A i \in 1..Len(t) : t[i] \in HexChars
             /\ \A i \in 1..Len(sp) : sp[i] \in HexChars
             /\ \/ (t # <<>> /\ Len(t) # TraceIdLen)
                \/ (sp # <<>> /\ Len(sp) # SpanIdLen)

\* C6 as stated: the parse yields "no data" for the empty string, for every string off the
\* skeleton and for every string with a hex run whose length is neither 32 nor 16.
C6_Original ==
  Parsed => ((tpInput = <<>> \/ ~Skeleton(tpInput) \/ BadHexRun(tpInput)) => ParseResult = None)

\* C6 (amended): extractTraceparentData returns "no data" for the empty string, for every
\* string that is off the whitespace/hyphen skeleton (such as "garbage"), and for every
\* string with both hyphens written whose non-empty trace-id run is not 32 hex characters
\* long or whose non-empty span-id run is not 16 long; every call returns a value.
C6_Tolerance ==
  Parsed => /\ IsSome(tpResult)
            /\ (tpInput = <<>> \/ ~Skeleton(tpInput) \/ TwoDashBadLen(tpInput)) => ParseResult = None

C6_Witness ==
  /\ Parsed
  /\ tpInput = Rep("a", TraceIdLen - 1) \o <<"-">> \o Rep("a", SpanIdLen) \o <<"-", "1">>
  /\ ParseResult = None

\* C7: parsing the serialized form of a valid (traceId, spanId, sampled) triple returns
\* exactly that triple: the ids verbatim, parentSampled true for flag 1, false for flag 0,
\* absent when no flag is written.
C7_RoundTrip ==
  (Parsed /\ IsSome(tpTriple)) =>
    ParseResult = Some([traceId |-> Some(Get(tpTriple).traceId),
                        parentSampled |-> Get(tpTriple).sampled,
                        parentSpanId |-> Some(Get(tpTriple).spanId)])

C7_Witness ==
  /\ Parsed
  /\ IsSome(tpTriple)
  /\ Get(tpTriple).sampled = Some(FALSE)
  /\ Get(tpTriple).traceId # Rep("0", TraceIdLen)
  /\ IsSome(ParseResult)
  /\ Get(ParseResult).parentSampled = Some(FALSE)

\* ================================================================ C8, C9
Injected == IsSome(injResult)
InjectResult == Get(injResult)
TraceKeys == {SENTRY_TRACE_NAME, BAGGAGE_HEADER_NAME}

\* The values a container holds under a name, in order.
RECURSIVE ValuesIn(_, _)
ValuesIn(es, name) ==
  IF es = <<>> THEN <<>>
  ELSE IF es[1][1] = name THEN <<es[1][2]>> \o ValuesIn(Tail(es), name)
  ELSE ValuesIn(Tail(es), name)

ValuesOf(c, name) ==
  IF c.shape \in {"Headers", "Array"} THEN ValuesIn(c.entries, name)
  ELSE IF c.shape = "Object" /\ name \in DOMAIN c.map /\ c.map[name].t # "undef" THEN c.map[name].v
  ELSE <<>>

\* The one header line a receiver gets for a name: same-name values of a Headers object or
\* of a pair list are combined with ", "; the elements of an array value with ",".
HeaderValue(c, name) ==
  IF c.shape \in {"Headers", "Array"} THEN Join(ValuesOf(c, name), <<",", " ">>)
  ELSE Join(ValuesOf(c, name), <<",">>)

\* A header line split at its commas, each member without its leading blanks.
RECURSIVE SplitComma(_, _)
SplitComma(str, cur) ==
  IF str = <<>> THEN <<cur>>
  ELSE IF str[1] = "," THEN <<cur>> \o SplitComma(Tail(str), <<>>)
  ELSE IF str[1] = " " /\ cur = <<>> THEN SplitComma(Tail(str), cur)
  ELSE SplitComma(Tail(str), Append(cur, str[1]))

SetOf(seq) == {seq[i] : i \in 1..Len(seq)}

\* The name/value entries of a container.
EntriesOf(c) ==
  IF c.shape \in {"Headers", "Array"} THEN SetOf(c.entries)
  ELSE IF c.shape = "Object"
    THEN UNION {{<<k, c.map[k].v[i]>> : i \in 1..Len(c.map[k].v)} : k \in DOMAIN c.map}
  ELSE {}

\* The entries the caller supplied, on the Request object and in the options.
PreExisting ==
  (IF injRequest.isRequest THEN EntriesOf(injRequest.headers) ELSE {})
    \cup (IF IsSome(injOptions.headers) THEN EntriesOf(Get(injOptions.headers)) ELSE {})

\* The shape family the caller supplied.
SuppliedShape ==
  IF IsSome(injOptions.headers) THEN Get(injOptions.headers).shape
  ELSE IF injRequest.isRequest THEN "Headers"
  ELSE "Object"

SupportedCall == IsSome(injOptions.headers) => Get(injOptions.headers).shape # "Other"

\* C8: for every call with a supported container shape, wherever the pre-existing headers
\* come from (Request and/or options), the result is of the same shape family, holds a
\* sentry-trace entry equal to the span's traceparent and holds every pre-existing entry
\* other than the trace-related ones with its value.
C8_PreservesHeaders ==
  (Injected /\ SupportedCall) =>
    /\ ~InjectResult.threw
    /\ InjectResult.headers.shape = SuppliedShape
    /\ toTraceparent(injSpan.traceId, injSpan.spanId, injSpan.sampled)
         \in SetOf(ValuesOf(InjectResult.headers, SENTRY_TRACE_NAME))
    /\ \A e \in PreExisting : e[1] \notin TraceKeys => e \in EntriesOf(InjectResult.headers)

\* The same statement for the calls whose headers come from one place only; it holds.
C8_SingleSource ==
  (Injected /\ SupportedCall /\ ~(injRequest.isRequest /\ IsSome(injOptions.headers))) =>
    /\ ~InjectResult.threw
    /\ InjectResult.headers.shape = SuppliedShape
    /\ toTraceparent(injSpan.traceId, injSpan.spanId, injSpan.sampled)
         \in SetOf(ValuesOf(InjectResult.headers, SENTRY_TRACE_NAME))
    /\ \A e \in PreExisting : e[1] \notin TraceKeys => e \in EntriesOf(InjectResult.headers)

\* The container the injector works on.
Selected == SelectHeaders(injRequest, injOptions)

HasBaggageA1 ==
  /\ IsSome(Selected)
  /\ Get(Selected).shape \in {"Headers", "Array", "Object"}
  /\ ValuesOf(Get(Selected), BAGGAGE_HEADER_NAME) = <<A1>>

\* C9: injecting a non-empty baggage fragment into a container (of any of the three
\* shapes) whose baggage is "a=1" yields a container of that shape whose baggage header is
\* the comma-joined list of "a=1" first and then the entries of the injected fragment.
C9_BaggageMerge ==
  (Injected /\ HasBaggageA1 /\ injDsc # <<>>) =>
    /\ ~InjectResult.threw
    /\ InjectResult.headers.shape = Get(Selected).shape
    /\ SplitComma(HeaderValue(InjectResult.headers, BAGGAGE_HEADER_NAME), <<>>) = <<A1>> \o BaggageEntries(injDsc)

C9_Witness ==
  /\ Injected /\ HasBaggageA1 /\ Len(injDsc) = 2
  /\ Get(Selected).shape = "Object"
  /\ "x" \in DOMAIN Get(Selected).map
  /\ InjectResult.headers.map[BAGGAGE_HEADER_NAME] = StrVal(A1 \o <<",">> \o Join(BaggageEntries(injDsc), <<",">>))

\* ================================================================ C1, C2, C5
\* C1: in every interleaving of the inbound requests, each active-transaction lookup made
\* during a request's resolution finds that request's own transaction, the span of a
\* request is its own transaction (never a child of another request's), the status code
\* set on it is the one of its own response, and the scope of its hub never holds
\* another request's span.
C1_RequestIsolation ==
  \A r \in Requests :
    /\ hLookups[r] \subseteq {Some(r)}
    /\ hScope[r] \in {None, Some(r)}
    /\ IsSome(hSpan[r]) =>
         /\ Get(hSpan[r]).transaction = r
         /\ IsSome(Get(hSpan[r]).httpStatus) =>
              (IsSome(hRes[r]) /\ Get(hSpan[r]).httpStatus = Some(Get(hRes[r]).status))

C1_Witness ==
  /\ hpc["A"] = "resolving" /\ hpc["B"] = "returned"
  /\ hLookups["A"] = {Some("A")} /\ hLookups["B"] = {Some("B")}
  /\ Get(hSpan["B"]).httpStatus = Some(404)
  /\ Get(hSpan["A"]).httpStatus = None

ValueEqual(a, b) ==
  /\ a.v = b.v
  /\ a.kind = b.kind \/ {a.kind, b.kind} = {"primitive", "wrapper"}

CapturesBy(r) == {i \in 1..Len(hCaptured) : hCaptured[i].by = r}

ResolverThrew(r) == hpc[r] = "done" /\ IsSome(hRes[r]) /\ Get(hRes[r]).kind = "rejected"

\* C2: when the wrapped resolver throws or rejects, exactly one exception is captured for
\* the request, with mechanism type 'sveltekit', handled false, function 'handle'; the
\* caller of sentryHandle gets a rejection with the (value-equal) error; and the request
\* span is finished with the error status.
C2_ErrorPassthrough ==
  \A r \in Requests :
    ResolverThrew(r) =>
      /\ Cardinality(CapturesBy(r)) = 1
      /\ \A i \in CapturesBy(r) :
           /\ hCaptured[i].mechanism = [type |-> "sveltekit", handled |-> FALSE, function |-> "handle"]
           /\ ValueEqual(hCaptured[i].err, Get(hRes[r]).err)
      /\ IsSome(hOut[r]) /\ Get(hOut[r]).kind = "rejected"
      /\ ValueEqual(Get(hOut[r]).err, Get(hRes[r]).err)
      /\ Get(hSpan[r]).status = "internal_error"
      /\ Get(hSpan[r]).finished = 1

C2_Witness ==
  /\ ResolverThrew("A")
  /\ Get(hRes["A"]).err = ObjectErr("boom")
  /\ Get(hOut["A"]).err = ObjectErr("boom")
  /\ Len(hCaptured) = 1

Phase(r) ==
  IF hpc[r] = "received" THEN "RECEIVED"
  ELSE IF hOut[r] = None THEN "TRACED"
  ELSE IF Get(hOut[r]).kind = "fulfilled" THEN "RESOLVED"
  ELSE "FAILED"

PhaseOrder == {<<"RECEIVED", "TRACED">>, <<"TRACED", "RESOLVED">>, <<"TRACED", "FAILED">>}

\* The position of the first occurrence of an event in a log, 0 when it is not there.
IndexOf(log, ev) ==
  IF \E i \in 1..Len(log) : log[i] = ev
    THEN CHOOSE i \in 1..Len(log) : log[i] = ev /\ \A j \in 1..(i - 1) : log[j] # ev
  ELSE 0

Before(log, e1, e2) == IndexOf(log, e2) # 0 => (IndexOf(log, e1) # 0 /\ IndexOf(log, e1) < IndexOf(log, e2))

StatusOfCode(code) ==
  CASE code = 200 -> "ok" [] code = 404 -> "not_found" [] code = 500 -> "internal_error"
    [] code = 501 -> "unimplemented" [] OTHER -> "other"

PhaseInvariant(r) ==
  /\ Before(hLog[r], "readHeaders", "startSpan")
  /\ Before(hLog[r], "startSpan", "resolve")
  /\ Phase(r) = "RECEIVED" => (hSpan[r] = None /\ hLog[r] = <<>>)
  /\ Phase(r) # "RECEIVED" => (IsSome(hSpan[r]) /\ IndexOf(hLog[r], "resolve") # 0)
  /\ Phase(r) = "RESOLVED" =>
       /\ Get(hRes[r]).kind = "fulfilled"
       /\ Get(hSpan[r]).status = StatusOfCode(Get(hOut[r]).status)
       /\ Before(hLog[r], "setHttpStatus", "return")
  /\ Phase(r) = "FAILED" => Get(hRes[r]).kind = "rejected"

\* C5: each request moves RECEIVED -> TRACED -> (RESOLVED | FAILED) and in no other order;
\* the resolver is invoked only after the headers were read and the span opened; once its
\* resolver has settled the request reaches RESOLVED or FAILED, which it never leaves; in
\* RESOLVED the status of the span is the one derived from the status code of the
\* response, set before the response is returned.
C5_StateMachine ==
  /\ [](\A r \in Requests : PhaseInvariant(r))
  /\ [][\A r \in Requests : Phase(r)' # Phase(r) => <<Phase(r), Phase(r)'>> \in PhaseOrder]_vars
  /\ \A r \in Requests : (IsSome(hRes[r]) ~> Phase(r) \in {"RESOLVED", "FAILED"})

C5_Witness ==
  /\ Phase("A") = "RESOLVED" /\ Get(hOut["A"]).status = 404
  /\ Get(hSpan["A"]).status = "not_found"
  /\ Phase("B") = "FAILED"

\* ------------------------------------------------------------------ C3
LoadFailed == lpc = "done" /\ IsSome(lRes) /\ Get(lRes).kind \in {"threw", "rejected"}
LoadSucceeded == lpc = "done" /\ IsSome(lRes) /\ Get(lRes).kind \in {"returned", "fulfilled"}

\* What objectification makes of a thrown value: the object itself, or the wrapper object
\* of a primitive.
Objectified(e) == IF e.kind = "object" THEN e ELSE [kind |-> "wrapper", v |-> e.v]

\* C3: when the original load throws or rejects, exactly one exception is captured, with
\* mechanism type 'sveltekit', handled false, function 'load'; the load span is finished
\* with the error status; the wrapped load throws (rejects) too, with the objectified
\* error: the same object for an object, the wrapper object for a primitive. When the
\* original load succeeds, the span is finished with status ok, nothing is captured and
\* the caller gets what the load returned.
C3_LoadErrorPassthrough ==
  /\ LoadFailed =>
       /\ Len(lCaptured) = 1
       /\ lCaptured[1].mechanism = [type |-> "sveltekit", handled |-> FALSE, function |-> "load"]
       /\ lCaptured[1].err = Objectified(Get(lRes).err)
       /\ Get(lSpans["load"]).status = "internal_error"
       /\ Get(lSpans["load"]).finished = 1
       /\ IsSome(lOut) /\ Get(lOut).kind = Get(lRes).kind
       /\ Get(lOut).err = Objectified(Get(lRes).err)
  /\ LoadSucceeded =>
       /\ lCaptured = <<>>
       /\ Get(lSpans["load"]).status = "ok"
       /\ Get(lSpans["load"]).finished = 1
       /\ lOut = lRes

C3_Witness ==
  /\ LoadFailed /\ Get(lRes) = PromiseRejected(PrimitiveErr("boom"))
  /\ Get(lOut).err = [kind |-> "wrapper", v |-> "boom"]
  /\ Len(lCaptured) = 1

\* ----------------------------------------------------------------- C10
\* The headers container the original fetch of a call was dispatched with, if any.
DispatchedContainers(call) ==
  (IF IsSome(call.dispatched.init) /\ IsSome(Get(call.dispatched.init).headers)
     THEN {Get(Get(call.dispatched.init).headers)} ELSE {})
  \cup (IF call.dispatched.input.isRequest THEN {call.dispatched.input.headers} ELSE {})

KeysOf(c) == IF c.shape = "Object" THEN DOMAIN c.map ELSE {c.entries[i][1] : i \in 1..Len(c.entries)}

CarriesTraceHeader(call) == \E c \in DispatchedContainers(call) : SENTRY_TRACE_NAME \in KeysOf(c)

UrlOf(call) == call.args.input.url

\* The urls of the inputs that match a pattern of the allow-list ["localhost"], and of the
\* default one; a string pattern matches every url it is a substring of.
LocalhostAllowed == {LocalhostApi, LookalikeUrl}
DefaultAllowed == {LocalhostApi, LookalikeUrl, RootRelativeUrl}

ConfiguredTargets == IF IsSome(fCfg.browserTracing) THEN Get(fCfg.browserTracing).tracePropagationTargets ELSE None

AllowedUrls == IF ConfiguredTargets = None THEN DefaultAllowed ELSE LocalhostAllowed

TracingOn == IsSome(fCfg.browserTracing) /\ Get(fCfg.browserTracing).traceFetch

SpansOn ==
  /\ IsSome(fCfg.browserTracing)
  /\ Get(fCfg.browserTracing).shouldCreateSpanForRequest # Some("never")
  /\ Get(fCfg.browserTracing).shouldCreateSpanForRequest = None => Get(fCfg.browserTracing).traceFetch

TransactionAt(call) == IsSome(call.activeSpan) /\ Get(fSpans[Get(call.activeSpan)]).transaction # "none"

LocalhostOnly == IsSome(fCfg.browserTracing) /\ ConfiguredTargets = Some(<<[re |-> FALSE, text |-> LocalhostText]>>)

\* C10 as the spec states it: with tracePropagationTargets = ["localhost"], every fetch to
\* https://localhost/api is dispatched with the trace headers and every fetch to
\* https://evil.example without them.
C10_Original ==
  \A i \in 1..Len(fCalls) :
    LocalhostOnly =>
      /\ UrlOf(fCalls[i]) = LocalhostApi => CarriesTraceHeader(fCalls[i])
      /\ UrlOf(fCalls[i]) = EvilUrl => ~CarriesTraceHeader(fCalls[i])

\* C10: a fetch is dispatched with the trace headers exactly when fetch tracing is enabled,
\* its url matches a pattern of the allow-list (default: 'localhost' or a root-relative
\* path), a span is to be created for it and a transaction is active at the call. So with
\* the allow-list ["localhost"], tracing on and a transaction active, a fetch to
\* https://localhost/api carries the headers, and no fetch to a url outside the allow-list,
\* https://evil.example among them, ever does.
C10_AllowListGating ==
  \A i \in 1..Len(fCalls) :
    /\ CarriesTraceHeader(fCalls[i]) <=>
         (TracingOn /\ UrlOf(fCalls[i]) \in AllowedUrls /\ SpansOn /\ TransactionAt(fCalls[i])
            /\ ~fCalls[i].bypass)
    /\ UrlOf(fCalls[i]) \notin AllowedUrls => ~CarriesTraceHeader(fCalls[i])
    /\ UrlOf(fCalls[i]) = EvilUrl => ~CarriesTraceHeader(fCalls[i])

C10_Witness ==
  /\ LocalhostOnly /\ Len(fCalls) >= 1
  /\ UrlOf(fCalls[1]) = LocalhostApi /\ CarriesTraceHeader(fCalls[1])
  /\ IsSome(fCalls[1].res)

C10_WitnessDenied ==
  /\ LocalhostOnly /\ TracingOn /\ SpansOn /\ Len(fCalls) >= 1 /\ TransactionAt(fCalls[1])
  /\ UrlOf(fCalls[1]) = EvilUrl /\ ~CarriesTraceHeader(fCalls[1])

\* ------------------------------------------------------------------ C4
\* The spans the wrappers opened.
OpenedSpans ==
  {Get(hSpan[r]) : r \in {q \in Requests : IsSome(hSpan[q])}}
  \cup (IF IsSome(lSpans["load"]) THEN {Get(lSpans["load"])} ELSE {})
  \cup {Get(fSpans[FetchNames[i]]) : i \in {j \in 1..Len(fCalls) : IsSome(fSpans[FetchNames[j]])}}

HandleSettled(r) == IsSome(hRes[r])
HandleReleased(r) == hpc[r] = "done" /\ IsSome(hSpan[r]) /\ Get(hSpan[r]).finished = 1
FetchSpanSettled(i) == i <= Len(fCalls) /\ fCalls[i].attachSpan /\ IsSome(fCalls[i].res)

\* C4: no span of sentryHandle, wrapLoadWithSentry or the instrumented fetch is ever
\* finished twice; once finished it stays finished once; the load span and the fetch span
\* are finished once as soon as the wrapped call has returned, thrown, fulfilled or
\* rejected; and once the resolver of a request has settled, its span is eventually
\* finished once.
C4_SpanRelease ==
  /\ [](\A sp \in OpenedSpans : sp.finished <= 1)
  /\ []((IsSome(lRes) /\ Get(lRes).kind # "pending") => Get(lSpans["load"]).finished = 1)
  /\ [](\A i \in 1..MaxFetches : FetchSpanSettled(i) => Get(fSpans[FetchNames[i]]).finished = 1)
  /\ \A r \in Requests : HandleSettled(r) ~> HandleReleased(r)
  /\ \A r \in Requests : [](hpc[r] = "done" => HandleReleased(r))

C4_Witness ==
  /\ hpc["A"] = "done" /\ Get(hRes["A"]).kind = "rejected" /\ Get(hSpan["A"]).finished = 1
  /\ hpc["B"] = "done" /\ Get(hRes["B"]).kind = "fulfilled" /\ Get(hSpan["B"]).finished = 1

C4_WitnessLoad == lpc = "done" /\ Get(lRes).kind = "threw" /\ Get(lSpans["load"]).finished = 1

C4_WitnessFetch ==
  /\ Len(fCalls) >= 1 /\ FetchSpanSettled(1) /\ Get(fCalls[1].res).kind = "rejected"
  /\ Get(fSpans["f1"]).finished = 1

\* ----------------------------------------------------------------- C11
\* The urls of the inputs that contain the ingestion marker.
MarkedUrls == {IngestUrl}

IsPost(args) == ~args.input.isRequest /\ IsSome(args.init) /\ Get(args.init).method = Some(PostText)

IsInternal(call) == UrlOf(call) \in MarkedUrls /\ IsPost(call.args)

BreadcrumbsOf(i) == {j \in 1..Len(fBreadcrumbs) : fBreadcrumbs[j].by = i}

BreadcrumbsOn == IsSome(fCfg.breadcrumbs) /\ Get(fCfg.breadcrumbs).fetch

\* C11: a fetch whose url contains 'sentry_key' and whose method is POST opens no span,
\* records no breadcrumb, carries no trace header, and the original fetch is called once
\* with exactly the arguments of the caller, whose promise settles as the original one.
\* Every other fetch is instrumented: the original fetch gets a copied init, a span is
\* opened when span creation applies, and a breadcrumb is recorded once it has settled
\* when breadcrumbs are on.
C11_InternalBypass ==
  \A i \in 1..Len(fCalls) :
    IF IsInternal(fCalls[i])
      THEN /\ fSpans[FetchNames[i]] = None
           /\ BreadcrumbsOf(i) = {}
           /\ ~CarriesTraceHeader(fCalls[i])
           /\ fCalls[i].dispatched = fCalls[i].args /\ fCalls[i].dispatches = 1
           /\ IsSome(fCalls[i].res) => fCalls[i].out = fCalls[i].res
      ELSE /\ IsSome(fCalls[i].dispatched.init)
           /\ SpansOn => IsSome(fSpans[FetchNames[i]])
           /\ (BreadcrumbsOn /\ IsSome(fCalls[i].res)) => BreadcrumbsOf(i) # {}

C11_Witness ==
  /\ Len(fCalls) >= 1 /\ IsInternal(fCalls[1]) /\ IsSome(fCalls[1].res)
  /\ BreadcrumbsOn /\ SpansOn /\ TracingOn /\ TransactionAt(fCalls[1])
  /\ fBreadcrumbs = <<>> /\ fSpans["f1"] = None

\* ----------------------------------------------------------------- C12
\* The url of each input without its query and fragment.
SanitizedOf(url) ==
  CASE url = LocalhostApi -> <<"h", "t", "t", "p", "s", ":", "/", "/", "l", "o", "c", "a", "l", "h", "o", "s", "t", "/", "a", "p", "i">>
    [] url = IngestUrl -> <<"h", "t", "t", "p", "s", ":", "/", "/", "o", ".", "i", "o", "/">>
    [] OTHER -> url

MethodOf(call) == IF IsPost(call.args) THEN PostText ELSE GetText

\* The breadcrumb a settled call is to leave.
ExpectedBreadcrumb(i) ==
  IF Get(fCalls[i].res).kind = "fulfilled"
    THEN [by |-> i, type |-> "http", category |-> "fetch", level |-> None,
          method |-> MethodOf(fCalls[i]), url |-> SanitizedOf(UrlOf(fCalls[i])),
          status_code |-> Some(Get(fCalls[i].res).status), hintData |-> None]
  ELSE [by |-> i, type |-> "http", category |-> "fetch", level |-> Some("error"),
        method |-> MethodOf(fCalls[i]), url |-> SanitizedOf(UrlOf(fCalls[i])),
        status_code |-> None, hintData |-> Some(Get(fCalls[i].res).err)]

IsPrefix(a, b) == Len(a) <= Len(b) /\ SubSeq(b, 1, Len(a)) = a

\* C12: with breadcrumbs on, a fetch that is not internal has no breadcrumb while its
\* promise is pending and exactly one once it has settled, whatever was decided about the
\* span and the headers: type http, category fetch, method, url and status code on
\* fulfilment; level error, no status code and the error as hint data on rejection. With
\* breadcrumbs off there is never a breadcrumb. Breadcrumbs are only ever added.
C12_FetchBreadcrumbs ==
  /\ [](\A i \in 1..Len(fCalls) :
         /\ (BreadcrumbsOn /\ ~IsInternal(fCalls[i]) /\ IsSome(fCalls[i].res)) =>
              /\ Cardinality(BreadcrumbsOf(i)) = 1
              /\ \A j \in BreadcrumbsOf(i) : fBreadcrumbs[j] = ExpectedBreadcrumb(i)
         /\ fCalls[i].res = None => BreadcrumbsOf(i) = {})
  /\ [](~BreadcrumbsOn => fBreadcrumbs = <<>>)
  /\ [][IsPrefix(fBreadcrumbs, fBreadcrumbs')]_vars

C12_Witness ==
  /\ BreadcrumbsOn /\ fCfg.browserTracing = None /\ Len(fCalls) >= 1
  /\ IsSome(fCalls[1].res) /\ Get(fCalls[1].res).kind = "rejected"
  /\ fSpans["f1"] = None
  /\ Len(fBreadcrumbs) = 1 /\ fBreadcrumbs[1].level = Some("error")
  /\ fBreadcrumbs[1].hintData = Some(ObjectErr("network"))

\* ----------------------------------------------------------------- C13
\* C13: whether breadcrumbs are on or off, the promise the caller holds is pending as
\* long as the original fetch is, and settles as the original fetch did: fulfilled with
\* the same response, or rejected with the same error; a rejection never becomes a
\* fulfilment.
C13_BreadcrumbsObserveOnly ==
  \A i \in 1..Len(fCalls) :
    /\ fCalls[i].res = None => fCalls[i].out = None
    /\ IsSome(fCalls[i].res) =>
         /\ IsSome(fCalls[i].out)
         /\ Get(fCalls[i].out).kind = Get(fCalls[i].res).kind
         /\ Get(fCalls[i].out).status = Get(fCalls[i].res).status
         /\ Get(fCalls[i].out).err = Get(fCalls[i].res).err

C13_Witness ==
  /\ BreadcrumbsOn /\ Len(fCalls) >= 1 /\ ~IsInternal(fCalls[1])
  /\ fCalls[1].res = Some([kind |-> "rejected", status |-> 0, err |-> ObjectErr("network")])
  /\ fCalls[1].out = fCalls[1].res
  /\ BreadcrumbsOf(1) # {}

\* ----------------------------------------------------------------- C14
HasHead(html) == \E i \in 1..Len(html) : i + 5 <= Len(html) /\ SubSeq(html, i, i + 5) = HeadTag

\* The places of the first '<head>' of a chunk: the number of characters before it.
FirstHeadAt(html) ==
  {k \in 0..Len(html) :
     /\ k + 6 <= Len(html) /\ SubSeq(html, k + 1, k + 6) = HeadTag
     /\ \A j \in 0..(k - 1) : SubSeq(html, j + 1, j + 6) # HeadTag}

\* The traceparent and the baggage of a transaction, as text.
TraceparentText(tx) ==
  tx.traceId \o <<"-">> \o tx.spanId
    \o (CASE tx.sampled = Some(TRUE) -> <<"-", "1">> [] tx.sampled = Some(FALSE) -> <<"-", "0">> [] OTHER -> <<>>)

BaggageText(tx) == IF tx.dsc = Some(<<>>) THEN <<>> ELSE <<"s", "e", "n", "t", "r", "y", "-", "t", "=", "1">>

MetaTags(traceparent, baggage) ==
  SentryTraceMetaOpen \o traceparent \o BaggageMetaOpen \o baggage \o MetaClose

InjectedAfterFirstHead(html, out, tags) ==
  \E k \in FirstHeadAt(html) :
    out = SubSeq(html, 1, k + 6) \o tags \o SubSeq(html, k + 7, Len(html))

\* C14: with an active transaction and a chunk that has a '<head>', transformPageChunk
\* returns the chunk with the sentry-trace and the baggage <meta> tags, carrying the
\* traceparent and the baggage of the transaction, right after the first '<head>' and
\* nothing else changed; without an active transaction or without a '<head>' it returns
\* the chunk as it is.
C14_HtmlInjection ==
  IsSome(pgOut) =>
    IF pgTx = None \/ ~HasHead(pgHtml) THEN Get(pgOut) = pgHtml
    ELSE InjectedAfterFirstHead(pgHtml, Get(pgOut),
                                MetaTags(TraceparentText(Get(pgTx)), BaggageText(Get(pgTx))))

\* The same with the baggage tag carrying the text "undefined" for a transaction whose
\* dynamic sampling context is empty.
C14_PlacementOnly ==
  IsSome(pgOut) =>
    IF pgTx = None \/ ~HasHead(pgHtml) THEN Get(pgOut) = pgHtml
    ELSE InjectedAfterFirstHead(pgHtml, Get(pgOut),
           MetaTags(TraceparentText(Get(pgTx)),
                    IF Get(pgTx).dsc = Some(<<>>) THEN UndefinedText ELSE BaggageText(Get(pgTx))))

C14_TwoHeads ==
  /\ IsSome(pgOut) /\ IsSome(pgTx) /\ pgHtml = HeadTag \o HeadTag
  /\ Len(Get(pgOut)) > Len(pgHtml)
  /\ SubSeq(Get(pgOut), Len(Get(pgOut)) - 5, Len(Get(pgOut))) = HeadTag

\* ----------------------------------------------------------------- C15
\* The headers of the inputs that parse, and what they parse to.
ParsingHeaders == {Some(ValidTraceparent)}
InboundTraceId == Rep("c", TraceIdLen)
InboundSpanId == Rep("d", SpanIdLen)

Continues(span) ==
  /\ span.traceId = InboundTraceId
  /\ span.parentSpanId = Some(InboundSpanId)
  /\ span.sampled = Some(TRUE)

StartsFresh(span) ==
  /\ span.traceId # InboundTraceId
  /\ span.parentSpanId = None
  /\ span.sampled = None

Started(r) == hpc[r] \notin {"off", "received"}
CalledResolve(r) == \E i \in 1..Len(hLog[r]) : hLog[r][i] = "resolve"

C15_UnmatchedIsAbsent ==
  \A r \in Requests :
    Started(r) =>
         /\ IsSome(hSpan[r]) /\ CalledResolve(r)
         /\ hReq[r].sentryTrace \in ParsingHeaders => Continues(Get(hSpan[r]))
         /\ hReq[r].sentryTrace \in {None, Some(Garbage)} => StartsFresh(Get(hSpan[r]))

C15_FlagOnlyInherits ==
  /\ Started("A") /\ hReq["A"].sentryTrace = Some(FlagOnly)
  /\ Get(hSpan["A"]).sampled = Some(FALSE) /\ Get(hSpan["A"]).traceId # InboundTraceId

\* ----------------------------------------------------------------- C16
EndsWith(str, suffix) ==
  Len(suffix) <= Len(str) /\ SubSeq(str, Len(str) - Len(suffix) + 1, Len(str)) = suffix

\* C16: the span sentryHandle opens for a request is named from the route id of the
\* request when it has one, and from the path of its url when it has none.
C16_TransactionNaming ==
  \A r \in Requests :
    Started(r) =>
      /\ IsSome(hReq[r].routeId) => EndsWith(Get(hSpan[r]).name, Get(hReq[r].routeId))
      /\ hReq[r].routeId = None => EndsWith(Get(hSpan[r]).name, hReq[r].pathname)

\* With a route id the name is the method, a space and the route id.
C16_NamedFromRoute ==
  \A r \in Requests :
    (Started(r) /\ IsSome(hReq[r].routeId)) =>
      Get(hSpan[r]).name = <<"G", "E", "T", " ">> \o Get(hReq[r].routeId)

C16_NamedNull ==
  /\ Started("A") /\ hReq["A"].routeId = None
  /\ Get(hSpan["A"]).name = <<"G", "E", "T", " ", "n", "u", "l", "l">>

\* ----------------------------------------------------------------- C17
ResolveCalls(r) == Cardinality({i \in 1..Len(hLog[r]) : hLog[r][i] = "resolve"})

HandleDone(r) == hpc[r] = "done" /\ IsSome(hRes[r]) /\ IsSome(hOut[r])
LoadDone == lpc = "done" /\ IsSome(lRes) /\ IsSome(lOut)

DefinedKeys(c) == {k \in DOMAIN c.map : c.map[k] # UndefVal}

Unsupported == IsSome(Selected) /\ Get(Selected).shape = "Other"

IsMinimalMapping(c) ==
  /\ c.shape = "Object"
  /\ DefinedKeys(c) = {SENTRY_TRACE_NAME} \cup (IF injDsc # <<>> THEN {BAGGAGE_HEADER_NAME} ELSE {})
  /\ c.map[SENTRY_TRACE_NAME] = StrVal(toTraceparent(injSpan.traceId, injSpan.spanId, injSpan.sampled))
  /\ injDsc # <<>> => c.map[BAGGAGE_HEADER_NAME] = StrVal(Join(BaggageEntries(injDsc), <<",">>))

\* C18: addTracingHeadersToFetchRequest throws for no input, and when no headers are
\* supplied or the supplied value is of an unsupported shape it returns the mapping of
\* sentry-trace and, for a non-empty fragment only, baggage.
C18_DegradesNeverThrows ==
  Injected =>
    /\ ~InjectResult.threw
    /\ (Selected = None \/ Unsupported) => IsMinimalMapping(InjectResult.headers)

\* The part of the statement about calls without headers; it holds.
C18_NoHeadersMinimal ==
  (Injected /\ Selected = None) => (~InjectResult.threw /\ IsMinimalMapping(InjectResult.headers))

C18_UnsupportedThrows == (Injected /\ Unsupported) => InjectResult = TypeErrorResult

\* ----------------------------------------------------------------- C19
\* The headers of the request options the original fetch of a call was dispatched with.
OptionHeaders(call) ==
  IF IsSome(call.dispatched.init) THEN Get(call.dispatched.init).headers ELSE None

InjectedInto(call) ==
  IsSome(OptionHeaders(call)) /\ SENTRY_TRACE_NAME \in KeysOf(Get(OptionHeaders(call)))

PositionsOf(log, step) == {i \in 1..Len(log) : log[i] = step}

InjectsBeforeDispatch(log) ==
  /\ PositionsOf(log, "inject") # {}
  /\ \A i \in PositionsOf(log, "inject"), j \in PositionsOf(log, "dispatch") : i < j

SpanAtCall(call) == Get(fSpans[Get(call.activeSpan)])

\* C19: a non-bypassed instrumented fetch is dispatched with injected trace headers in its
\* request options if and only if shouldAttachHeaders(url) and shouldCreateSpan(url) hold
\* and the span on the scope at the call belongs to a transaction; the injection precedes
\* the dispatch, sentry-trace is the traceparent of that span and baggage is the
\* serialization of its transaction's dynamic sampling context (no baggage for an empty one).
C19_InjectionCondition ==
  \A i \in 1..Len(fCalls) :
    ~fCalls[i].bypass =>
      /\ InjectedInto(fCalls[i]) <=>
           (/\ shouldAttachHeaders(fCfg, UrlOf(fCalls[i]))
            /\ shouldCreateSpan(fCfg, UrlOf(fCalls[i]))
            /\ TransactionAt(fCalls[i]))
      /\ InjectedInto(fCalls[i]) =>
           /\ InjectsBeforeDispatch(fCalls[i].log)
           /\ ValuesOf(Get(OptionHeaders(fCalls[i])), SENTRY_TRACE_NAME) =
                <<toTraceparent(SpanAtCall(fCalls[i]).traceId, SpanAtCall(fCalls[i]).spanId,
                                SpanAtCall(fCalls[i]).sampled)>>
           /\ ValuesOf(Get(OptionHeaders(fCalls[i])), BAGGAGE_HEADER_NAME) =
                (IF fTxDsc = <<>> THEN <<>> ELSE <<Join(BaggageEntries(fTxDsc), <<",">>)>>)
      /\ ~InjectedInto(fCalls[i]) =>
           /\ PositionsOf(fCalls[i].log, "inject") = {}
           /\ OptionHeaders(fCalls[i]) = patchedInitOf(fCalls[i].args.init).headers

C19_Witness ==
  /\ Len(fCalls) >= 1 /\ ~fCalls[1].bypass /\ InjectedInto(fCalls[1])
  /\ fCalls[1].args.input.isRequest
  /\ fTxDsc # <<>>
  /\ SpanAtCall(fCalls[1]).transaction = "pageload"
  /\ IsSome(fCalls[1].res)

C19_WitnessNoTransaction ==
  /\ Len(fCalls) >= 1 /\ ~fCalls[1].bypass /\ ~InjectedInto(fCalls[1])
  /\ shouldAttachHeaders(fCfg, UrlOf(fCalls[1])) /\ shouldCreateSpan(fCfg, UrlOf(fCalls[1]))

\* ----------------------------------------------------------------- C20
PlainMappingCall == Injected /\ IsSome(Selected) /\ Get(Selected).shape = "Object"

\* The existing baggage value(s) of a mapping as a list: the elements of an array, the one
\* non-empty string, or nothing.
ExistingBaggageList(m) ==
  IF BAGGAGE_HEADER_NAME \notin DOMAIN m THEN <<>>
  ELSE IF m[BAGGAGE_HEADER_NAME].t = "arr" THEN m[BAGGAGE_HEADER_NAME].v
  ELSE IF m[BAGGAGE_HEADER_NAME].t = "str" /\ m[BAGGAGE_HEADER_NAME].v # <<<<>>>>
    THEN m[BAGGAGE_HEADER_NAME].v
  ELSE <<>>

NewFragmentList == IF injDsc = <<>> THEN <<>> ELSE <<Join(BaggageEntries(injDsc), <<",">>)>>

CombinedBaggage == ExistingBaggageList(Get(Selected).map) \o NewFragmentList

\* C20: for a plain mapping the result is a mapping with every existing key copied,
\* sentry-trace set to the span's traceparent whatever it held, and baggage set to the
\* comma-join of the existing baggage value(s), an array flattened, followed by the new
\* fragment when there is one; baggage is undefined, not the empty string, when that
\* list is empty.
C20_PlainMappingInjection ==
  PlainMappingCall =>
    /\ ~InjectResult.threw
    /\ InjectResult.headers.shape = "Object"
    /\ DOMAIN InjectResult.headers.map = DOMAIN Get(Selected).map \cup {SENTRY_TRACE_NAME, BAGGAGE_HEADER_NAME}
    /\ \A k \in DOMAIN Get(Selected).map \ {SENTRY_TRACE_NAME, BAGGAGE_HEADER_NAME} :
         InjectResult.headers.map[k] = Get(Selected).map[k]
    /\ InjectResult.headers.map[SENTRY_TRACE_NAME] =
         StrVal(toTraceparent(injSpan.traceId, injSpan.spanId, injSpan.sampled))
    /\ CombinedBaggage = <<>> => InjectResult.headers.map[BAGGAGE_HEADER_NAME] = UndefVal
    /\ CombinedBaggage # <<>> =>
         /\ InjectResult.headers.map[BAGGAGE_HEADER_NAME].t = "str"
         /\ StrOf(InjectResult.headers.map[BAGGAGE_HEADER_NAME]) # <<>>
         /\ SplitComma(StrOf(InjectResult.headers.map[BAGGAGE_HEADER_NAME]), <<>>) =
              ExistingBaggageList(Get(Selected).map) \o BaggageEntries(injDsc)

C20_Witness ==
  /\ PlainMappingCall /\ Len(injDsc) = 2
  /\ DOMAIN Get(Selected).map = {"x", SENTRY_TRACE_NAME, BAGGAGE_HEADER_NAME}
  /\ Get(Selected).map[BAGGAGE_HEADER_NAME] = ArrVal(<<A1, B2>>)
  /\ Get(Selected).map[SENTRY_TRACE_NAME] = StrVal(OldTrace)
  /\ InjectResult.headers.map[SENTRY_TRACE_NAME] # StrVal(OldTrace)
  /\ StrOf(InjectResult.headers.map[BAGGAGE_HEADER_NAME]) =
       A1 \o <<",">> \o B2 \o <<",">> \o Join(BaggageEntries(injDsc), <<",">>)

C20_WitnessEmpty ==
  /\ PlainMappingCall /\ injDsc = <<>>
  /\ BAGGAGE_HEADER_NAME \in DOMAIN Get(Selected).map
  /\ Get(Selected).map[BAGGAGE_HEADER_NAME] = StrVal(<<>>)
  /\ InjectResult.headers.map[BAGGAGE_HEADER_NAME] = UndefVal

\* ----------------------------------------------------------------- C21
\* The entries of the given container are the first entries of the returned one (Headers,
\* pair list), or the given keys other than the trace keys are kept (mapping).
BuiltFrom(given, result) ==
  /\ result.shape = given.shape
  /\ given.shape \in {"Headers", "Array"} =>
       /\ Len(result.entries) > Len(given.entries)
       /\ SubSeq(result.entries, 1, Len(given.entries)) = given.entries
  /\ given.shape = "Object" =>
       \A k \in DOMAIN given.map \ TraceKeys : k \in DOMAIN result.map /\ result.map[k] = given.map[k]

\* The fields of the patched event other than fetch are those of the event.
OnlyFetchChanged(event, patched) ==
  /\ patched.fetch = <<"instrumented", event.fetch>>
  /\ [patched EXCEPT !.fetch = event.fetch] = event

\* C21: a call of addTracingHeadersToFetchRequest leaves the Request and the options it
\* was given as they were and returns a container built from the given one (Headers, pair
\* list or mapping); a call of the instrumented fetch leaves the caller's input and init
\* as they were, whatever was dispatched; a call of the wrapped load leaves the event as it
\* was and hands the original load an event that differs from it in fetch only.
C21_NoCallerMutation ==
  /\ [][/\ injRequest' = injRequest /\ injOptions' = injOptions
        /\ lEvent' = lEvent
        /\ \A i \in 1..Len(fCalls) : fCalls'[i].args = fCalls[i].args /\ fCalls'[i].caller = fCalls[i].caller]_vars
  /\ [](/\ (Injected /\ IsSome(Selected) /\ ~InjectResult.threw) => BuiltFrom(Get(Selected), InjectResult.headers)
        /\ \A i \in 1..Len(fCalls) : fCalls[i].caller = fCalls[i].args
        /\ IsSome(lPatched) => OnlyFetchChanged(lEvent, Get(lPatched)))

C21_WitnessInject ==
  /\ Injected /\ IsSome(Selected) /\ Get(Selected).shape = "Array" /\ Len(Get(Selected).entries) = 2
  /\ ~injRequest.isRequest /\ injDsc # <<>>
  /\ Len(InjectResult.headers.entries) = 4

C21_WitnessLoad == lpc = "done" /\ IsSome(lPatched) /\ lEvent.params = "p2" /\ IsSome(lEvent.routeId)

C21_Witness ==
  /\ Len(fCalls) >= 1 /\ fCalls[1].injected /\ IsSome(fCalls[1].res)
  /\ IsSome(fCalls[1].args.init) /\ IsSome(Get(fCalls[1].args.init).headers)
  /\ fCalls[1].dispatched.init # fCalls[1].args.init
  /\ fCalls[1].caller = fCalls[1].args

\* ----------------------------------------------------------------- C22
DecisionSteps == {"decide", "inject", "startSpan"}
OutcomeSteps == {"setHttpStatus", "setStatus", "finish", "breadcrumb"}

StepsIn(log, steps) == {i \in 1..Len(log) : log[i] \in steps}

FetchSpanOf(i) == fSpans[FetchNames[i]]

\* C22: on the three paths of a call (bypass, span created, no span created) the original
\* fetch is dispatched exactly once; the header and span decisions precede the dispatch;
\* as long as the dispatched fetch is pending the span of the call has no status and is
\* not finished and the call has no breadcrumb, and the status, the finish and the
\* breadcrumb follow the settlement.
C22_DispatchOnce ==
  \A i \in 1..Len(fCalls) :
    /\ fCalls[i].dispatches = 1
    /\ Cardinality(StepsIn(fCalls[i].log, {"dispatch"})) = 1
    /\ \A d \in StepsIn(fCalls[i].log, DecisionSteps), x \in StepsIn(fCalls[i].log, {"dispatch"}) : d < x
    /\ ~fCalls[i].bypass => StepsIn(fCalls[i].log, {"decide"}) # {}
    /\ fCalls[i].attachSpan <=> StepsIn(fCalls[i].log, {"startSpan"}) # {}
    /\ fCalls[i].attachSpan <=> IsSome(FetchSpanOf(i))
    /\ fCalls[i].res = None =>
         /\ StepsIn(fCalls[i].log, OutcomeSteps \cup {"settle"}) = {}
         /\ BreadcrumbsOf(i) = {}
         /\ IsSome(FetchSpanOf(i)) => (Get(FetchSpanOf(i)).status = "unset" /\ Get(FetchSpanOf(i)).finished = 0)
    /\ IsSome(fCalls[i].res) =>
         /\ Cardinality(StepsIn(fCalls[i].log, {"settle"})) = 1
         /\ \A x \in StepsIn(fCalls[i].log, {"dispatch"}), t \in StepsIn(fCalls[i].log, {"settle"}) : x < t
         /\ \A t \in StepsIn(fCalls[i].log, {"settle"}), o \in StepsIn(fCalls[i].log, OutcomeSteps) : t < o
         /\ IsSome(FetchSpanOf(i)) => (Get(FetchSpanOf(i)).status # "unset" /\ Get(FetchSpanOf(i)).finished = 1)

C22_Witness ==
  /\ Len(fCalls) >= 1 /\ fCalls[1].attachSpan /\ fCalls[1].injected /\ BreadcrumbsOn
  /\ IsSome(fCalls[1].res) /\ Get(fCalls[1].res).kind = "fulfilled"
  /\ fCalls[1].log = <<"decide", "inject", "startSpan", "dispatch", "settle", "setHttpStatus", "finish", "breadcrumb">>
  /\ BreadcrumbsOf(1) # {}

C22_WitnessPending ==
  /\ Len(fCalls) >= 1 /\ fCalls[1].attachSpan /\ BreadcrumbsOn /\ fCalls[1].res = None
  /\ IsSome(FetchSpanOf(1))

C22_WitnessBypass == Len(fCalls) >= 1 /\ fCalls[1].bypass /\ IsSome(fCalls[1].res) /\ BreadcrumbsOn

====
